---- MODULE Spec2Model ----
(***************************************************************************)
(* Incident Auto-Triage Service: alert ingestion, the background triage    *)
(* runner, the worker harness and the lifecycle / review API, modelled     *)
(* over the relational store they share.                                   *)
(*                                                                         *)
(* One Incident row exists per dedup_key, so incidents are indexed by      *)
(* their key.  AlertEvent ids are numbered per key (1, 2, ...); 0 is a     *)
(* null reference.  Every action is one committed database transaction of  *)
(* the code (or the code between two commits of the runner).               *)
(***************************************************************************)
EXTENDS Naturals, Sequences, FiniteSets

\* ---------------------------------------------------------------- bounds
MaxTasks == 2

MaxRequests == 3

Keys == {"k1"}
Workers == {"w1", "w2"}
Handlers == {"h1", "h2"}

\* ---------------------------------------------------- program constants
celery_task_max_retries == 3
evidence_min_refs_for_confident_report == 3
no_guess_confidence_threshold == 45

Null == "null"

IncidentStatus ==
  {"open", "triaging", "awaiting_human_review", "triaged", "mitigated",
   "resolved", "postmortem_required", "failed"}

IncidentDecision == {"approve", "reject"}

IncidentStatusUpdate == {"mitigated", "resolved", "postmortem_required"}

NotesSet == {Null, "notes"}

VARIABLES
  incidents,    \* IncidentORM rows, by dedup_key
  alert_events, \* number of AlertEventORM rows attached to each key
  evidence_packs, \* EvidencePackORM rows of each incident, by created_at
  triage_reports, \* TriageReportORM rows of each incident (a set of rows)
  pipeline_runs,  \* PipelineRunORM rows of each incident, counted by kind
  review_decisions, \* ReviewDecisionORM rows of each incident, counted
  queue,        \* triage task messages waiting in the broker
  workers,      \* the triage run each worker is executing
  fixture_mode, \* Settings.fixture_mode of the deployment
  published,    \* number of task messages published or delivered again
  observer,     \* per incident: cancelled-run history
  last,         \* the operation that made the last step and its result
  incident_rows, \* the incidents table as rows, under concurrent ingestion
  alert_rows,   \* the committed alert_events rows, under concurrent ingestion
  http,         \* the ingest request each HTTP pool thread is serving
  started,      \* number of ingest requests accepted by the HTTP pool
  settings,     \* the Settings the deployment loaded from its environment
  llm,          \* an OllamaLLMClient, its endpoints and the requests it sent
  feedback,     \* whether the incident has IncidentFeedbackORM rows
  redaction,    \* the texts of one triage run: gathered, sent, stored
  call,         \* the arguments and the result of one call of a helper
  changes       \* the DeploymentEventORM and ConfigChangeORM rows

core_vars == <<incidents, alert_events, evidence_packs, triage_reports,
               pipeline_runs, review_decisions, queue, workers, fixture_mode,
               published, observer, last>>

ingest_vars == <<incident_rows, alert_rows, http, started>>

\* Everything outside the store, the broker and the workers.
aux_vars == <<ingest_vars, settings, llm, feedback, redaction, call, changes>>

\* Everything but the call of a helper.
rest_vars ==
  <<core_vars, ingest_vars, settings, llm, feedback, redaction, changes>>

vars == <<core_vars, aux_vars>>

NoIncident ==
  [exists |-> FALSE, status |-> "open", last_error |-> Null,
   latest_alert_event_id |-> 0]

NoRuns == [success |-> 0, skipped |-> 0, failed_llm |-> 0, failed_triage |-> 0]

NoDecisions == [approve |-> 0, reject |-> 0]

EmptyPayload ==
  [mode |-> "normal", facts |-> <<>>, hypotheses |-> <<>>,
   next_checks |-> <<>>, mitigations |-> <<>>, llm_provider |-> Null]

IdleWorker ==
  [pc |-> "idle", inc |-> Null, retries |-> 0, from |-> <<Null, Null>>, alert |-> 0,
   nq |-> 0, model |-> Null, payload |-> EmptyPayload, existing |-> FALSE]

IdleHandler == [pc |-> "idle", key |-> Null, alert |-> 0, found |-> 0, result |-> 0]

\* The body of a response: nothing, or the fields the claims read.
NoBody ==
  [shape |-> "none", status |-> Null, reason |-> Null, message |-> Null,
   items |-> {}]

NoOp ==
  [code |-> 0, kind |-> Null, inc |-> Null, retries |-> 0, body |-> NoBody,
   audit |-> 0]

RECURSIVE SumOver(_, _)
SumOver(f, S) ==
  IF S = {} THEN 0
  ELSE LET x == CHOOSE y \in S : TRUE IN f[x] + SumOver(f, S \ {x})

Total(f) == SumOver(f, DOMAIN f)

Min(a, b) == IF a < b THEN a ELSE b

Max(a, b) == IF a > b THEN a ELSE b

Tasks == Keys \X (0..celery_task_max_retries)

AlertCount == Total(alert_events)

\* No OllamaLLMClient under observation.
NoClient ==
  [pc |-> "none", tags |-> <<>>, post |-> <<>>, cached |-> 0, calls |-> 0,
   result |-> Null, posts |-> <<>>, llm_endpoint_used |-> 0,
   endpoint_failover_count |-> 0]

\* No triage run whose texts are under observation.
NoTexts ==
  [pc |-> "none", alert_title |-> Null, artifacts |-> <<>>,
   allow_raw_storage |-> FALSE, called |-> FALSE, digest |-> <<>>,
   stored |-> <<>>]

\* Settings(): the defaults of config.py.
\* No helper has been called.
NoCall == [fn |-> Null]

DefaultSettings ==
  [no_guess_confidence_threshold |-> no_guess_confidence_threshold]

InitStore ==
  /\ incidents = [k \in Keys |-> NoIncident]
  /\ alert_events = [k \in Keys |-> 0]
  /\ evidence_packs = [k \in Keys |-> <<>>]
  /\ triage_reports = [k \in Keys |-> {}]
  /\ pipeline_runs = [k \in Keys |-> NoRuns]
  /\ review_decisions = [k \in Keys |-> NoDecisions]
  /\ queue = [t \in Tasks |-> 0]
  /\ workers = [w \in Workers |-> IdleWorker]
  /\ fixture_mode \in BOOLEAN
  /\ published = 0
  /\ observer = [k \in Keys |-> "none"]
  /\ last = NoOp
  /\ incident_rows = {}
  /\ alert_rows = {}
  /\ http = [h \in Handlers |-> IdleHandler]
  /\ started = 0
  /\ feedback = [k \in Keys |-> FALSE]

Init ==
  /\ InitStore
  /\ settings = DefaultSettings
  /\ llm = NoClient
  /\ redaction = NoTexts
  /\ call = NoCall
  /\ changes = {}

\* ------------------------------------------------------------ repository

\* upsert_incident: insert in status open, or point the existing row at the
\* new alert and reopen it from the terminal-or-awaiting statuses.
ReopenFrom ==
  {"failed", "awaiting_human_review", "triaged", "mitigated", "resolved",
   "postmortem_required"}

\* Variant: the reopen set also holds triaging.
upsert_incident_reopen_triaging(inc, alert_event_id) ==
  IF ~inc.exists
  THEN [exists |-> TRUE, status |-> "open", last_error |-> Null,
        latest_alert_event_id |-> alert_event_id]
  ELSE IF inc.status \in ReopenFrom \cup {"triaging"}
       THEN [inc EXCEPT !.latest_alert_event_id = alert_event_id,
                        !.status = "open", !.last_error = Null]
       ELSE [inc EXCEPT !.latest_alert_event_id = alert_event_id]

upsert_incident(inc, alert_event_id) ==
  IF ~inc.exists
  THEN [exists |-> TRUE, status |-> "open", last_error |-> Null,
        latest_alert_event_id |-> alert_event_id]
  ELSE IF inc.status \in ReopenFrom
       THEN [inc EXCEPT !.latest_alert_event_id = alert_event_id,
                        !.status = "open", !.last_error = Null]
       ELSE [inc EXCEPT !.latest_alert_event_id = alert_event_id]

set_incident_status(inc, status, error) ==
  [inc EXCEPT !.status = status, !.last_error = error]

\* get_latest_evidence_pack: the rows of the incident ordered by created_at
\* descending, limit 1 (the empty sequence when there is none).
get_latest_evidence_pack(k) ==
  IF evidence_packs[k] = <<>> THEN <<>>
  ELSE <<evidence_packs[k][Len(evidence_packs[k])]>>

store_evidence_pack(k, alert, nq) ==
  Append(evidence_packs[k], [alert_event_id |-> alert, nq |-> nq])

\* Variant: the report row is written after the commit of the run.
store_triage_report_deferred(rows, existing, model_name, payload) == rows

\* store_triage_report after its select: update the row found, or insert.
store_triage_report(rows, existing, model_name, payload) ==
  IF existing THEN {[model |-> model_name, payload |-> payload]}
  ELSE rows \cup {[model |-> model_name, payload |-> payload]}

\* Variant: triage_reports.incident_id carries no unique index.
report_unique_violation_never(rows) == FALSE

\* The unique index on triage_reports.incident_id: the flush of an insert
\* fails when a row of the incident is committed.
report_unique_violation(rows) == rows # {}

create_pipeline_run(runs, kind) == [runs EXCEPT ![kind] = @ + 1]

\* Variant: the new row replaces the decisions stored before.
create_review_decision_replacing(decs, decision) ==
  [NoDecisions EXCEPT ![decision] = 1]

create_review_decision(decs, decision) == [decs EXCEPT ![decision] = @ + 1]

\* ------------------------------------------------------------- artifacts

\* _artifact: artifact ids are content hashes; the logs_query artifacts of a
\* run are numbered, the others are one per type.
QueryArtifacts(alert, nq) == {<<"logs_query", alert, j>> : j \in 1..nq}

Artifacts(alert, nq) ==
  QueryArtifacts(alert, nq)
    \cup {<<"log_signatures", alert, 0>>, <<"timeline", alert, 0>>,
          <<"evidence_score", alert, 0>>}

UnknownArtifact == <<"unknown", 0, 0>>

PackArtifacts(pack) == Artifacts(pack.alert_event_id, pack.nq)

\* _fallback_insufficient_report: two next_checks citing the first two
\* logs_query artifacts, nothing else.
_fallback_insufficient_report(alert, nq) ==
  LET query_refs == QueryArtifacts(alert, Min(nq, 2))
  IN [mode |-> "insufficient_evidence", facts |-> <<>>, hypotheses |-> <<>>,
      next_checks |-> <<query_refs, query_refs>>, mitigations |-> <<>>,
      llm_provider |-> "fallback"]

\* TriageReportPayload.model_validate: ensure_facts_have_citations is the
\* only citation validator.
ensure_facts_have_citations(payload) ==
  \A i \in 1..Len(payload.facts) : payload.facts[i] # {}

\* The no-guess gate of the runner.
\* Variant: the fixture-mode cap on the threshold is dropped.
effective_confidence_threshold_uncapped ==
  settings.no_guess_confidence_threshold

effective_confidence_threshold ==
  IF fixture_mode THEN Min(settings.no_guess_confidence_threshold, 60)
  ELSE settings.no_guess_confidence_threshold

required_query_refs(nq) ==
  IF fixture_mode
  THEN Min(Max(1, evidence_min_refs_for_confident_report - 1), Max(1, nq))
  ELSE evidence_min_refs_for_confident_report

\* Variant: the gate looks at the score alone.
no_guess_score_only(score, nq) == score < effective_confidence_threshold

no_guess(score, nq) ==
  score < effective_confidence_threshold \/ nq < required_query_refs(nq)

\* Variant: one except clause for everything.
FailedStageAlwaysTriage(kind) == "triage"

\* Stage of the failed PipelineRun written by the two except clauses.
FailedStage(kind) == IF kind = "LLMConfigurationError" THEN "llm" ELSE "triage"

FailedKind(kind) ==
  IF FailedStage(kind) = "llm" THEN "failed_llm" ELSE "failed_triage"

\* ------------------------------------------------------- inputs (bounded)
QueryCounts == {0, 3}

Scores == {30, 80}

\* Replies of the LLM gateway: an exception, or a decoded report object.
LLMErrors == {"LLMConfigurationError", "invalid_json"}

LLMPayloads(alert, nq) ==
  LET q == {<<"logs_query", alert, 1>>}
      cited == [mode |-> "normal", facts |-> <<q>>, hypotheses |-> <<q>>,
                next_checks |-> <<q>>, mitigations |-> <<q>>,
                llm_provider |-> "local"]
  IN {cited,
      [cited EXCEPT !.facts = <<{}>>],
      [cited EXCEPT !.hypotheses = <<{}>>],
      [cited EXCEPT !.facts = <<{UnknownArtifact}>>]}

\* What the last step answered (HTTP status) or raised (exception, with the
\* incident and the retry count of the task that raised it).
Response(code, k) == [NoOp EXCEPT !.code = code, !.inc = k]

\* A 200 response with its body; audit is the number of AuditLog rows the
\* request committed together with its writes.
Reply(k, body, audit) ==
  [NoOp EXCEPT !.code = 200, !.inc = k, !.body = body, !.audit = audit]

Shape(shape) == [NoBody EXCEPT !.shape = shape]

\* --------------------------------------------------------------- principals
\* IncidentORM.service of the incident of a dedup_key (fixed by its alerts).
service_of(k) == "checkout"

Admin == [role |-> "admin", services |-> {}, can_ingest |-> FALSE]

Principals ==
  {Admin,
   [role |-> "viewer", services |-> {"billing"}, can_ingest |-> TRUE],
   [role |-> "viewer", services |-> {"*"}, can_ingest |-> FALSE]}

\* Variant: any principal with a non-empty services list passes.
authorize_service_any(principal, service) ==
  principal.role = "admin" \/ principal.services # {}

\* authorize_service returns (TRUE) or raises 403 (FALSE).
authorize_service(principal, service) ==
  \/ principal.role = "admin"
  \/ "*" \in principal.services
  \/ service \in principal.services

\* Variant: every authenticated principal may ingest.
require_ingest_open(principal) == TRUE

\* require_ingest returns (TRUE) or raises 403 (FALSE).
require_ingest(principal) == principal.role = "admin" \/ principal.can_ingest

Raised(kind, k, r) == [NoOp EXCEPT !.kind = kind, !.inc = k, !.retries = r]

\* ------------------------------------------------------------- ingestion

\* POST /alerts/*: _ingest_normalized_event (persist the AlertEvent, upsert
\* the incident, commit, enqueue the triage task).
ingest_alert(k) ==
  /\ published < MaxTasks
  /\ published' = published + 1
  /\ LET id == alert_events[k] + 1 IN
       /\ alert_events' = [alert_events EXCEPT ![k] = id]
       /\ incidents' = [incidents EXCEPT ![k] = upsert_incident(@, id)]
  /\ queue' = [queue EXCEPT ![<<k, 0>>] = @ + 1]
  /\ observer' =
       [observer EXCEPT ![k] =
          IF @ = "cancelled"
          THEN (IF incidents[k].status = "triaging" THEN "alerted" ELSE "none")
          ELSE @]
  /\ UNCHANGED <<evidence_packs, triage_reports, pipeline_runs,
                 review_decisions, workers, fixture_mode>>

\* An alert accepted from a source that may ingest.
post_alert(k) ==
  /\ ingest_alert(k)
  /\ last' = NoOp
  /\ UNCHANGED aux_vars

\* ---------------------------------------------------------- triage runner

\* The except clauses of triage_incident_sync: incident -> failed with
\* last_error, one failed PipelineRun, commit; the exception is swallowed.
Fail(w, kind) ==
  LET k == workers[w].inc IN
  /\ incidents' = [incidents EXCEPT ![k] = set_incident_status(@, "failed", kind)]
  /\ pipeline_runs' =
       [pipeline_runs EXCEPT ![k] = create_pipeline_run(@, FailedKind(kind))]
  /\ workers' = [workers EXCEPT ![w] = IdleWorker]
  /\ last' = Raised(kind, k, workers[w].retries)
  /\ UNCHANGED <<alert_events, evidence_packs, triage_reports, review_decisions,
                 queue, fixture_mode, published, observer>>

\* A worker takes a task; the runner loads the incident, moves it to
\* triaging and commits.
RunnerStart(w, k, r) ==
  /\ workers[w].pc = "idle"
  /\ queue[<<k, r>>] > 0
  /\ queue' = [queue EXCEPT ![<<k, r>>] = @ - 1]
  /\ IF ~incidents[k].exists
     THEN /\ UNCHANGED <<incidents, workers>>
          /\ last' = NoOp
     ELSE /\ incidents' =
               [incidents EXCEPT ![k] = set_incident_status(@, "triaging", Null)]
          /\ workers' =
               [workers EXCEPT ![w] = [IdleWorker EXCEPT !.pc = "gate", !.inc = k,
                                                         !.retries = r,
                                                         !.from = <<incidents[k].status,
                                                                    incidents[k].last_error>>]]
          /\ last' = NoOp
  /\ UNCHANGED <<alert_events, evidence_packs, triage_reports, pipeline_runs,
                 review_decisions, fixture_mode, published, observer>>
  /\ UNCHANGED aux_vars

\* Variant: the provenance string is compared with something it never equals.
IdempotentSkipNeverEqual(k, alert) ==
  LET latest_evidence == get_latest_evidence_pack(k) IN
  latest_evidence # <<>> /\ latest_evidence[1].alert_event_id = alert + MaxTasks + 1

\* The idempotence gate: latest alert against the latest EvidencePack.
IdempotentSkip(k, alert) ==
  LET latest_evidence == get_latest_evidence_pack(k) IN
  latest_evidence # <<>> /\ latest_evidence[1].alert_event_id = alert

RunnerGate(w) ==
  LET k == workers[w].inc
      alert == incidents[k].latest_alert_event_id
  IN
  /\ workers[w].pc = "gate"
  /\ IF alert = 0
     THEN Fail(w, "RuntimeError")
     ELSE IF IdempotentSkip(k, alert)
     THEN /\ pipeline_runs' =
               [pipeline_runs EXCEPT ![k] = create_pipeline_run(@, "skipped")]
          /\ workers' = [workers EXCEPT ![w] = IdleWorker]
          /\ last' = NoOp
          /\ observer' = [observer EXCEPT ![k] = IF @ = "alerted" THEN "none" ELSE @]
          /\ UNCHANGED <<incidents, alert_events, evidence_packs, triage_reports,
                         review_decisions, queue, fixture_mode,
                         published>>
     ELSE /\ workers' = [workers EXCEPT ![w].pc = "build", ![w].alert = alert,
                                          ![w].from = <<Null, Null>>]
          /\ last' = NoOp
          /\ observer' = [observer EXCEPT ![k] = IF @ = "alerted" THEN "rerun" ELSE @]
          /\ UNCHANGED <<incidents, alert_events, evidence_packs, triage_reports,
                         pipeline_runs, review_decisions, queue,
                         fixture_mode, published>>
  /\ UNCHANGED aux_vars

\* Evidence building, the no-guess gate, the LLM call, the validation of the
\* report object and the select of store_triage_report for the existing row;
\* no database write is committed here.
\* One pass of build_evidence_and_triage over an evidence pack with nq
\* logs_query artifacts that _score_evidence scores as score.
RunnerBuildWith(w, nq, score) ==
  LET k == workers[w].inc
      alert == workers[w].alert
  IN
  /\ workers[w].pc = "build"
  /\ \/ \* fetch_logs raises (only outside fixture mode)
        /\ ~fixture_mode
        /\ nq > 0
        /\ Fail(w, "RuntimeError")
     \/ /\ no_guess(score, nq)
        /\ workers' =
             [workers EXCEPT ![w].pc = "persist", ![w].nq = nq,
                             ![w].existing = (triage_reports[k] # {}),
                             ![w].model = "fallback:no-guess",
                             ![w].payload = _fallback_insufficient_report(alert, nq)]
        /\ last' = NoOp
        /\ UNCHANGED <<incidents, alert_events, evidence_packs, triage_reports,
                       pipeline_runs, review_decisions, queue, fixture_mode,
                       published, observer>>
     \/ /\ ~no_guess(score, nq)
        /\ \/ \E e \in LLMErrors :
                Fail(w, IF e = "invalid_json" THEN "RuntimeError" ELSE e)
           \/ \E p \in LLMPayloads(alert, nq) :
                IF ~ensure_facts_have_citations(p)
                THEN Fail(w, "ValidationError")
                ELSE /\ workers' =
                          [workers EXCEPT ![w].pc = "persist", ![w].nq = nq,
                             ![w].existing = (triage_reports[k] # {}),
                                          ![w].model = "local_llm_model",
                                          ![w].payload = p]
                     /\ last' = NoOp
                     /\ UNCHANGED <<incidents, alert_events, evidence_packs,
                                    triage_reports, pipeline_runs,
                                    review_decisions, queue, fixture_mode,
                                    published, observer>>

RunnerBuild(w) ==
  /\ \E nq \in QueryCounts, score \in Scores : RunnerBuildWith(w, nq, score)
  /\ UNCHANGED aux_vars

\* The write of store_triage_report (insert or update), the transition to
\* awaiting_human_review, the EvidencePack, the success PipelineRun, commit.
\* An insert that meets a row committed since the select violates the unique
\* index on incident_id; the except clause then fails on the rolled-back
\* session and the exception leaves the task.
RunnerPersist(w) ==
  LET k == workers[w].inc IN
  /\ workers[w].pc = "persist"
  /\ IF ~workers[w].existing /\ report_unique_violation(triage_reports[k])
     THEN /\ workers' =
               [workers EXCEPT ![w] = [IdleWorker EXCEPT !.pc = "raised", !.inc = k,
                                                         !.retries = workers[w].retries]]
          /\ last' = Raised("IntegrityError", k, workers[w].retries)
          /\ UNCHANGED <<incidents, evidence_packs, triage_reports, pipeline_runs>>
     ELSE /\ triage_reports' =
               [triage_reports EXCEPT
                  ![k] = store_triage_report(@, workers[w].existing,
                                             workers[w].model,
                                             workers[w].payload)]
          /\ incidents' =
               [incidents EXCEPT
                  ![k] = set_incident_status(@, "awaiting_human_review", Null)]
          /\ evidence_packs' =
               [evidence_packs EXCEPT
                  ![k] = store_evidence_pack(k, workers[w].alert, workers[w].nq)]
          /\ pipeline_runs' =
               [pipeline_runs EXCEPT ![k] = create_pipeline_run(@, "success")]
          /\ workers' = [workers EXCEPT ![w] = IdleWorker]
          /\ last' = NoOp
  /\ UNCHANGED <<alert_events, review_decisions, queue, fixture_mode,
                 published, observer>>
  /\ UNCHANGED aux_vars

\* ---------------------------------------------------------- worker harness

\* The Celery task: autoretry_for=(Exception,), max_retries.  A task whose
\* body raised is published again until its retries are used up.
autoretry(w) ==
  LET k == workers[w].inc
      r == workers[w].retries
  IN
  /\ workers[w].pc = "raised"
  /\ queue' = IF r < celery_task_max_retries
              THEN [queue EXCEPT ![<<k, r + 1>>] = @ + 1]
              ELSE queue
  /\ workers' = [workers EXCEPT ![w] = IdleWorker]
  /\ last' = NoOp
  /\ UNCHANGED <<incidents, alert_events, evidence_packs, triage_reports,
                 pipeline_runs, review_decisions, fixture_mode,
                 published, observer>>
  /\ UNCHANGED aux_vars

\* Worker shutdown while a run is in progress: the run stops where it is and
\* nothing uncommitted is kept.
Cancel(w) ==
  LET k == workers[w].inc IN
  /\ workers[w].pc \in {"gate", "build", "persist"}
  /\ workers' = [workers EXCEPT ![w] = IdleWorker]
  /\ observer' =
       [observer EXCEPT ![k] = IF incidents[k].status = "triaging"
                              THEN "cancelled" ELSE @]
  /\ last' = NoOp
  /\ UNCHANGED <<incidents, alert_events, evidence_packs, triage_reports,
                 pipeline_runs, review_decisions, queue, fixture_mode,
                 published>>
  /\ UNCHANGED aux_vars

\* At-least-once delivery: the broker delivers the task of an incident again.
Redeliver(k) ==
  /\ incidents[k].exists
  /\ published < MaxTasks
  /\ published' = published + 1
  /\ queue' = [queue EXCEPT ![<<k, 0>>] = @ + 1]
  /\ last' = NoOp
  /\ UNCHANGED <<incidents, alert_events, evidence_packs, triage_reports,
                 pipeline_runs, review_decisions, workers,
                 fixture_mode, observer>>
  /\ UNCHANGED aux_vars

\* ------------------------------------------------------------ lifecycle API

\* POST /incidents/{id}/decision
decide_incident_report(p, k, decision, notes) ==
  /\ IF ~incidents[k].exists
     THEN /\ last' = Response(404, k)
          /\ UNCHANGED <<incidents, review_decisions>>
     ELSE IF ~authorize_service(p, service_of(k))
     THEN /\ last' = Response(403, k)
          /\ UNCHANGED <<incidents, review_decisions>>
     ELSE IF incidents[k].status # "awaiting_human_review"
     THEN /\ last' = Response(409, k)
          /\ UNCHANGED <<incidents, review_decisions>>
     ELSE /\ incidents' =
               [incidents EXCEPT ![k] =
                  IF decision = "approve"
                  THEN set_incident_status(@, "triaged", Null)
                  ELSE set_incident_status(@, "open",
                         IF notes # Null THEN notes
                         ELSE "report rejected by reviewer")]
          /\ review_decisions' =
               [review_decisions EXCEPT ![k] = create_review_decision(@, decision)]
          /\ last' = Reply(k, NoBody, 1)
  /\ UNCHANGED <<alert_events, evidence_packs, triage_reports, pipeline_runs,
                 queue, workers, fixture_mode, published, observer>>
  /\ UNCHANGED aux_vars

\* Variant: resolved is also accepted from awaiting_human_review.
allowed_from_lax(target) ==
  IF target = "mitigated" THEN {"triaged"}
  ELSE IF target = "resolved"
  THEN {"triaged", "mitigated", "awaiting_human_review"}
  ELSE {"triaged", "mitigated", "resolved"}

\* POST /incidents/{id}/status
allowed_from(target) ==
  IF target = "mitigated" THEN {"triaged"}
  ELSE IF target = "resolved" THEN {"triaged", "mitigated"}
  ELSE {"triaged", "mitigated", "resolved"}

update_incident_status(p, k, target, notes) ==
  /\ IF ~incidents[k].exists
     THEN /\ last' = Response(404, k)
          /\ UNCHANGED incidents
     ELSE IF ~authorize_service(p, service_of(k))
     THEN /\ last' = Response(403, k)
          /\ UNCHANGED incidents
     ELSE IF incidents[k].status \notin allowed_from(target)
     THEN /\ last' = Response(409, k)
          /\ UNCHANGED incidents
     ELSE /\ incidents' =
               [incidents EXCEPT ![k] = set_incident_status(@, target, notes)]
          /\ last' = Reply(k, NoBody, 1)
  /\ UNCHANGED <<alert_events, evidence_packs, triage_reports, pipeline_runs,
                 review_decisions, queue, workers, fixture_mode,
                 published, observer>>
  /\ UNCHANGED aux_vars

\* ------------------------------------------------------------ specification
Next ==
  \/ \E k \in Keys : post_alert(k)
  \/ \E w \in Workers, k \in Keys, r \in 0..celery_task_max_retries :
       RunnerStart(w, k, r)
  \/ \E w \in Workers : RunnerGate(w)
  \/ \E w \in Workers : RunnerBuild(w)
  \/ \E w \in Workers : RunnerPersist(w)
  \/ \E w \in Workers : autoretry(w)
  \/ \E w \in Workers : Cancel(w)
  \/ \E k \in Keys : Redeliver(k)
  \/ \E k \in Keys, d \in IncidentDecision, n \in NotesSet :
       decide_incident_report(Admin, k, d, n)
  \/ \E k \in Keys, t \in IncidentStatusUpdate, n \in NotesSet :
       update_incident_status(Admin, k, t, n)

Spec == Init /\ [][Next]_vars

\* ------------------------------------------- concurrent alert ingestion
\* The HTTP pool serves several POST /alerts/* requests at once, each in its
\* own session (READ COMMITTED): what a request has flushed is visible to the
\* others only after its commit.

IngestKeys == {"k1", "k2"}

\* select(IncidentORM).where(dedup_key == k), over the committed rows.
select_incident(k) == {r \in incident_rows : r.dedup_key = k}

\* Variant: the dedup_key column carries no unique index.
UniqueViolationNever(rows, k) == FALSE

\* The unique index on incidents.dedup_key, checked when an insert reaches
\* the database.
UniqueViolation(rows, k) == \E r \in rows : r.dedup_key = k

\* _ingest_normalized_event up to the select of upsert_incident: the
\* AlertEvent is flushed (uncommitted) and the incident is looked up.
ingest_begin(h, k) ==
  /\ http[h].pc = "idle"
  /\ started < MaxRequests
  /\ started' = started + 1
  /\ http' =
       [http EXCEPT ![h] =
          IF Cardinality(select_incident(k)) > 1
          THEN [IdleHandler EXCEPT !.key = k, !.result = 500]
          ELSE [pc |-> "selected", key |-> k, alert |-> started + 1,
                found |-> IF select_incident(k) = {} THEN 0
                          ELSE (CHOOSE r \in select_incident(k) : TRUE).id,
                result |-> 0]]
  /\ UNCHANGED <<incident_rows, alert_rows, core_vars, settings, llm, feedback, redaction, call, changes>>

\* The rest of _ingest_normalized_event: upsert_incident inserts or updates,
\* flush, commit, and the response.  An insert that meets a row committed
\* since the select raises IntegrityError: the request answers 500 and its
\* transaction, AlertEvent included, is rolled back.
ingest_commit(h) ==
  LET k == http[h].key
      a == http[h].alert
      f == http[h].found
      attach(id) == alert_rows \cup {[id |-> a, dedup_key |-> k, incident_id |-> id]}
      done(code, id) == [IdleHandler EXCEPT !.key = k, !.found = id, !.result = code]
  IN
  /\ http[h].pc = "selected"
  /\ IF f # 0
     THEN /\ incident_rows' =
               {IF r.id = f THEN [r EXCEPT !.inc = upsert_incident(@, a)] ELSE r :
                  r \in incident_rows}
          /\ alert_rows' = attach(f)
          /\ http' = [http EXCEPT ![h] = done(200, f)]
     ELSE IF UniqueViolation(incident_rows, k)
     THEN /\ UNCHANGED <<incident_rows, alert_rows>>
          /\ http' = [http EXCEPT ![h] = done(500, 0)]
     ELSE /\ incident_rows' =
               incident_rows \cup
                 {[id |-> a, dedup_key |-> k, inc |-> upsert_incident(NoIncident, a)]}
          /\ alert_rows' = attach(a)
          /\ http' = [http EXCEPT ![h] = done(200, a)]
  /\ UNCHANGED <<started, core_vars, settings, llm, feedback, redaction, call, changes>>

NextIngest ==
  \/ \E h \in Handlers, k \in IngestKeys : ingest_begin(h, k)
  \/ \E h \in Handlers : ingest_commit(h)

SpecIngest == Init /\ [][NextIngest]_vars

\* ------------------------------------------------------------------ claims

\* The transition graph of the incident lifecycle, as pairs <<from, to>>.
GraphEdges ==
  {<<"open", "triaging">>, <<"triaging", "awaiting_human_review">>,
   <<"awaiting_human_review", "triaged">>, <<"awaiting_human_review", "open">>,
   <<"triaged", "mitigated">>, <<"triaged", "resolved">>,
   <<"triaged", "postmortem_required">>, <<"mitigated", "resolved">>,
   <<"mitigated", "postmortem_required">>,
   <<"resolved", "postmortem_required">>}
    \cup {<<s, "failed">> : s \in IncidentStatus}
    \cup {<<s, "open">> :
            s \in {"failed", "awaiting_human_review", "triaged", "mitigated",
                   "resolved", "postmortem_required"}}

\* The most recent EvidencePack of the incident is the one of its latest alert.
LatestPackIsForLatestAlert(k) ==
  /\ Len(evidence_packs[k]) > 0
  /\ evidence_packs[k][Len(evidence_packs[k])].alert_event_id
       = incidents[k].latest_alert_event_id

Running(k) == \E w \in Workers : workers[w].pc # "idle" /\ workers[w].inc = k

Queued(k) == \E r \in 0..celery_task_max_retries : queue[<<k, r>>] > 0

PipelineErrors == {"RuntimeError", "LLMConfigurationError", "ValidationError"}

\* C1: every change of an incident's status, by any operation, is an edge of
\* the lifecycle graph (in particular triaging is entered from open only).
C1_StatusFollowsGraph ==
  [][\A k \in Keys :
       (incidents[k].exists /\ incidents'[k].status # incidents[k].status)
         => <<incidents[k].status, incidents'[k].status>> \in GraphEdges]_vars

\* C2: a triage task delivered again after a successful run for the latest
\* alert (the run that takes the skip path) leaves the incident's status and
\* last_error as they were before the delivery, and leaves the report and the
\* packs alone.
C2_RedeliveryIsNoOp ==
  [][\A w \in Workers :
       (RunnerGate(w) /\ LatestPackIsForLatestAlert(workers[w].inc))
         => LET k == workers[w].inc IN
            /\ <<incidents'[k].status, incidents'[k].last_error>> = workers[w].from
            /\ triage_reports' = triage_reports
            /\ evidence_packs' = evidence_packs]_vars

\* C3: a run that reaches the idempotence gate when the most recent
\* EvidencePack carries the incident's latest alert records exactly one
\* skipped PipelineRun and returns there: it never enters evidence building
\* (log queries, LLM call) and writes no EvidencePack and no TriageReport.
C3_IdempotentSkip ==
  [][\A w \in Workers :
       (RunnerGate(w) /\ LatestPackIsForLatestAlert(workers[w].inc))
         => LET k == workers[w].inc IN
            /\ pipeline_runs' = [pipeline_runs EXCEPT ![k].skipped = @ + 1]
            /\ evidence_packs' = evidence_packs
            /\ triage_reports' = triage_reports
            /\ workers'[w] = IdleWorker
            /\ last'.kind = Null]_vars

C3_Witness == \E k \in Keys : pipeline_runs[k].skipped > 0

\* C4: once the N alerts posted for a key have all had their triage task run
\* to completion (nothing delivered twice, nothing failed or cancelled), the
\* incident has exactly one success run and N-1 skipped runs.
C4_OneSuccessRestSkipped ==
  \A k \in Keys :
    (/\ alert_events[k] >= 1
     /\ published = AlertCount
     /\ ~Running(k) /\ ~Queued(k)
     /\ pipeline_runs[k].failed_llm = 0 /\ pipeline_runs[k].failed_triage = 0
     /\ pipeline_runs[k].success + pipeline_runs[k].skipped = alert_events[k])
      => /\ pipeline_runs[k].success = 1
         /\ pipeline_runs[k].skipped = alert_events[k] - 1

Entries(payload) ==
  {payload.facts[i] : i \in 1..Len(payload.facts)}
    \cup {payload.hypotheses[i] : i \in 1..Len(payload.hypotheses)}
    \cup {payload.next_checks[i] : i \in 1..Len(payload.next_checks)}
    \cup {payload.mitigations[i] : i \in 1..Len(payload.mitigations)}

\* C5: every fact, hypothesis, next_check and mitigation of every stored
\* TriageReport has at least one evidence_ref.
C5_EveryEntryCited ==
  \A k \in Keys : \A row \in triage_reports[k] :
    \A refs \in Entries(row.payload) : refs # {}

\* C6: every artifact_id cited by an incident's stored TriageReport is the id
\* of an artifact of that incident's most recent EvidencePack.
C6_CitedArtifactsExist ==
  \A k \in Keys : \A row \in triage_reports[k] :
    \A refs \in Entries(row.payload) :
      /\ Len(evidence_packs[k]) > 0
      /\ refs \subseteq PackArtifacts(evidence_packs[k][Len(evidence_packs[k])])

\* C7: a status or decision request that is not an edge of the lifecycle
\* graph from the incident's current status is answered 409 and changes
\* neither the incident's status and last_error nor the ReviewDecisions:
\* a request for an existing incident is answered 200 or 409, it is answered
\* 200 only when it made an edge of the graph, and a 409 changes nothing.
C7_IllegalTransitionRejected ==
  [][LET k == last'.inc IN
     /\ last'.code \in {0, 200, 404, 409}
     /\ last'.code = 404 => ~incidents[k].exists
     /\ last'.code = 200 =>
          <<incidents[k].status, incidents'[k].status>> \in GraphEdges
     /\ last'.code = 409 =>
          /\ incidents[k].exists
          /\ incidents' = incidents
          /\ review_decisions' = review_decisions]_vars

C7_Witness ==
  /\ last.code = 409
  /\ \E k \in Keys : incidents[k].exists /\ incidents[k].status = "open"

C9_FailedRunIsRetried ==
  (last.kind \in PipelineErrors /\ last.retries < celery_task_max_retries)
    => queue[<<last.inc, last.retries + 1>>] > 0

\* C10 as stated: the alert that follows a cancelled run reopens the
\* incident from triaging to open, and the next run does not skip.
C10_CancelledThenReopened ==
  [][/\ \A k \in Keys :
          (/\ post_alert(k)
           /\ observer[k] = "cancelled"
           /\ incidents[k].status = "triaging")
            => incidents'[k].status = "open"
     /\ \A w \in Workers :
          (RunnerGate(w) /\ observer[workers[w].inc] = "alerted")
            => workers'[w].pc = "build"]_vars

\* C10 amended: the alert that follows a cancelled run leaves the incident in
\* triaging and only moves latest_alert_event_id to the new alert, for which
\* no EvidencePack exists; the first run to reach the gate afterwards does
\* not skip and builds evidence for the incident's latest alert.
C10_CancelledStaysTriaging ==
  [][/\ \A k \in Keys :
          (/\ post_alert(k)
           /\ observer[k] = "cancelled"
           /\ incidents[k].status = "triaging")
            => /\ incidents'[k].status = "triaging"
               /\ incidents'[k].latest_alert_event_id = alert_events'[k]
               /\ \A i \in 1..Len(evidence_packs'[k]) :
                    evidence_packs'[k][i].alert_event_id # alert_events'[k]
     /\ \A w \in Workers :
          (RunnerGate(w) /\ observer[workers[w].inc] = "alerted")
            => /\ workers'[w].pc = "build"
               /\ workers'[w].alert = incidents[workers[w].inc].latest_alert_event_id
               /\ pipeline_runs' = pipeline_runs]_vars

C10_Witness == \E k \in Keys : observer[k] = "rerun"

\* C11: at most one Incident row exists per dedup_key, also when ingestions
\* for the key run concurrently, and every committed AlertEvent of a key
\* belongs to an ingest that returned the id of that one row.
C11_OneIncidentPerKey ==
  /\ \A k \in IngestKeys : Cardinality(select_incident(k)) <= 1
  /\ \A a \in alert_rows :
       \E r \in incident_rows : r.dedup_key = a.dedup_key /\ r.id = a.incident_id

C11_Witness ==
  \E h \in Handlers :
    /\ http[h].result = 500
    /\ Cardinality({a \in alert_rows : a.dedup_key = http[h].key}) >= 2

\* C12: at most one triage run of an incident is past the idempotence gate
\* (gathering evidence, calling the LLM or persisting) at any time.
C12_NoParallelTriage ==
  \A k \in Keys :
    Cardinality({w \in Workers :
                   workers[w].inc = k /\ workers[w].pc \in {"build", "persist"}}) <= 1


\* ------------------------------------------------------------ the HTTP API
\* Everything a request may write besides its response and the feedback rows.
store_vars == <<incidents, alert_events, evidence_packs, triage_reports,
                pipeline_runs, review_decisions, queue, workers, fixture_mode,
                published, observer>>

api_rest == <<ingest_vars, settings, llm, redaction, call, changes>>

\* POST /alerts/cloudwatch and /alerts/alertmanager.
post_cloudwatch_alert(p, k) ==
  /\ IF ~require_ingest(p)
     THEN /\ last' = Response(403, k)
          /\ UNCHANGED store_vars
     ELSE /\ ingest_alert(k)
          /\ last' = Reply(k, Shape("ingested"), 0)
  /\ UNCHANGED <<api_rest, feedback>>

\* GET /incidents.
list_incidents(p) ==
  /\ last' = Reply(Null,
                   [Shape("list") EXCEPT
                      !.items = {k \in Keys : /\ incidents[k].exists
                                              /\ authorize_service(p, service_of(k))}],
                   1)
  /\ UNCHANGED <<store_vars, api_rest, feedback>>

\* GET /incidents/{id}.
get_incident(p, k) ==
  /\ last' = IF ~incidents[k].exists THEN Response(404, k)
             ELSE IF ~authorize_service(p, service_of(k)) THEN Response(403, k)
             ELSE Reply(k, [Shape("incident") EXCEPT !.status = incidents[k].status,
                                                     !.reason = incidents[k].last_error],
                        1)
  /\ UNCHANGED <<store_vars, api_rest, feedback>>

\* GET /incidents/{id}/evidence.
get_incident_evidence(p, k) ==
  /\ last' = IF ~incidents[k].exists THEN Reply(k, NoBody, 0)
             ELSE IF ~authorize_service(p, service_of(k)) THEN Response(403, k)
             ELSE IF get_latest_evidence_pack(k) = <<>> THEN Reply(k, NoBody, 0)
             ELSE Reply(k, Shape("evidence"), 1)
  /\ UNCHANGED <<store_vars, api_rest, feedback>>

\* The body get_incident_report returns to an authorized principal.
get_incident_report_body(inc, report) ==
  IF report = {}
  THEN IF inc.exists /\ inc.status = "failed"
       THEN [NoBody EXCEPT !.shape = "failure", !.status = "failed",
                           !.reason = inc.last_error,
                           !.message = "LLM unavailable or not configured"]
       ELSE NoBody
  ELSE [Shape("report") EXCEPT
          !.status = IF inc.exists THEN inc.status ELSE Null]

\* GET /incidents/{id}/report.
get_incident_report(p, k) ==
  /\ last' = IF incidents[k].exists /\ ~authorize_service(p, service_of(k))
             THEN Response(403, k)
             ELSE Reply(k, get_incident_report_body(incidents[k], triage_reports[k]),
                        IF triage_reports[k] = {} THEN 0 ELSE 1)
  /\ UNCHANGED <<store_vars, api_rest, feedback>>

\* POST /incidents/{id}/feedback.
create_incident_feedback(p, k) ==
  /\ IF ~incidents[k].exists
     THEN last' = Response(404, k) /\ UNCHANGED feedback
     ELSE IF ~authorize_service(p, service_of(k))
     THEN last' = Response(403, k) /\ UNCHANGED feedback
     ELSE /\ feedback' = [feedback EXCEPT ![k] = TRUE]
          /\ last' = Reply(k, Shape("feedback"), 1)
  /\ UNCHANGED <<store_vars, api_rest>>

\* GET /incidents/{id}/feedback.
list_incident_feedback(p, k) ==
  /\ last' = IF ~incidents[k].exists THEN Response(404, k)
             ELSE IF ~authorize_service(p, service_of(k)) THEN Response(403, k)
             ELSE Reply(k, Shape("feedback_list"), 1)
  /\ UNCHANGED <<store_vars, api_rest, feedback>>

\* GET /metrics/quality and /metrics/runtime: aggregates, no write.
quality_metrics ==
  /\ last' = Reply(Null, Shape("metrics"), 0)
  /\ UNCHANGED <<store_vars, api_rest, feedback>>

\* POST /admin/purge. old: the cutoff now - days falls after the triage runs
\* of an incident that an alert or a failed run has updated since, with no
\* run in progress and no decision or feedback stored; otherwise no row is
\* older than the cutoff. PipelineRun rows are never purged.
purge_old_data(p, old) ==
  /\ IF p.role # "admin"
     THEN /\ last' = Response(403, Null)
          /\ UNCHANGED <<evidence_packs, triage_reports>>
     ELSE /\ last' = Reply(Null, Shape("purged"), 1)
          /\ IF old
             THEN /\ \A w \in Workers : workers[w].pc = "idle"
                  /\ \A k \in Keys :
                       /\ evidence_packs[k] # <<>>
                       /\ incidents[k].status # "awaiting_human_review"
                       /\ review_decisions[k] = NoDecisions
                       /\ ~feedback[k]
                  /\ evidence_packs' = [k \in Keys |-> <<>>]
                  /\ triage_reports' = [k \in Keys |-> {}]
             ELSE UNCHANGED <<evidence_packs, triage_reports>>
  /\ UNCHANGED <<incidents, alert_events, pipeline_runs, review_decisions,
                 queue, workers, fixture_mode, published, observer>>
  /\ UNCHANGED <<api_rest, feedback>>

\* Requests of every principal against the store one worker fills.
NextApi ==
  \/ \E p \in Principals, k \in Keys : post_cloudwatch_alert(p, k)
  \/ \E k \in Keys, r \in 0..celery_task_max_retries : RunnerStart("w1", k, r)
  \/ RunnerGate("w1")
  \/ RunnerBuild("w1")
  \/ RunnerPersist("w1")
  \/ \E p \in Principals : list_incidents(p)
  \/ \E p \in Principals, k \in Keys : get_incident(p, k)
  \/ \E p \in Principals, k \in Keys : get_incident_evidence(p, k)
  \/ \E p \in Principals, k \in Keys : get_incident_report(p, k)
  \/ \E p \in Principals, k \in Keys, d \in IncidentDecision :
       \E n \in IF d = "reject" THEN NotesSet ELSE {Null} :
         decide_incident_report(p, k, d, n)
  \/ \E p \in Principals, k \in Keys, t \in IncidentStatusUpdate :
       update_incident_status(p, k, t, Null)
  \/ \E p \in Principals, k \in Keys : create_incident_feedback(p, k)
  \/ \E p \in Principals, k \in Keys : list_incident_feedback(p, k)
  \/ quality_metrics

\* The deployment with the default FIXTURE_MODE.
InitApi == Init /\ fixture_mode

SpecApi == InitApi /\ [][NextApi]_vars

\* Alerts, the triage runs of a single worker, the reads of the report and
\* the retention purge.
NextRetention ==
  \/ \E p \in Principals, k \in Keys : post_cloudwatch_alert(p, k)
  \/ \E k \in Keys, r \in 0..celery_task_max_retries : RunnerStart("w1", k, r)
  \/ RunnerGate("w1")
  \/ RunnerBuild("w1")
  \/ RunnerPersist("w1")
  \/ \E p \in Principals, k \in Keys : get_incident_report(p, k)
  \/ \E p \in Principals, k \in Keys : get_incident_evidence(p, k)
  \/ \E p \in Principals, old \in BOOLEAN : purge_old_data(p, old)

SpecRetention == Init /\ [][NextRetention]_vars

\* ------------------------------------------------ forced no-guess threshold
\* NO_GUESS_CONFIDENCE_THRESHOLD=0.99 in the environment of the deployment.
ForcedThreshold == 99

ForcedSettings ==
  [DefaultSettings EXCEPT !.no_guess_confidence_threshold = ForcedThreshold]

InitForced ==
  /\ InitStore
  /\ settings = ForcedSettings
  /\ llm = NoClient
  /\ redaction = NoTexts
  /\ call = NoCall
  /\ changes = {}

\* Alerts and the triage runs of a single worker under the forced threshold.
NextForced ==
  \/ \E k \in Keys : post_alert(k)
  \/ \E k \in Keys, r \in 0..celery_task_max_retries : RunnerStart("w1", k, r)
  \/ RunnerGate("w1")
  \/ RunnerBuild("w1")
  \/ RunnerPersist("w1")

SpecForced == InitForced /\ [][NextForced]_vars

\* The shape of the report _fallback_insufficient_report builds, as the
\* run holds it before the write and as the stored row shows it.
IsFallbackReport(model, payload) ==
  /\ payload.mode = "insufficient_evidence"
  /\ Len(payload.next_checks) >= 1
  /\ payload.facts = <<>>
  /\ model = "fallback:no-guess"
  /\ payload.llm_provider = "fallback"

MaxEndpoints == 3

MaxCalls == 2

\* _configured_endpoints(): the ordered, de-duplicated endpoint list.
Endpoints == 1..MaxEndpoints

\* What POST /api/generate of an endpoint does: a 2xx reply whose response
\* text is a JSON report, is empty or is not JSON, or an httpx.HTTPError.
PostReplies == {"ok", "empty", "invalid", "error"}

\* The fields class Settings declares (extra="ignore": nothing else exists).
SettingsFields ==
  {"llm_provider", "local_llm_model", "ollama_base_url",
   "local_llm_timeout_seconds", "fixture_mode", "allow_raw_storage",
   "celery_task_max_retries", "evidence_min_refs_for_confident_report",
   "no_guess_confidence_threshold"}

\* self.settings.<field>: an attribute read raises AttributeError unless the
\* field is declared.
settings_has(field) == field \in SettingsFields

\* _first_healthy(client, endpoints, start_index): the first endpoint from
\* start on whose GET /api/tags lists the model; 0 when there is none.
_first_healthy(tags, start) ==
  LET healthy == {i \in Endpoints : i >= start /\ tags[i]}
  IN IF healthy = {} THEN 0 ELSE CHOOSE i \in healthy : \A j \in healthy : i <= j

\* The end of generate_triage_report once a POST has returned 2xx.
decode_response(c, endpoint, failover_count) ==
  IF c.post[endpoint] = "ok"
  THEN [c EXCEPT !.result = "ok", !.llm_endpoint_used = endpoint,
                 !.endpoint_failover_count = failover_count]
  ELSE [c EXCEPT !.result = "RuntimeError"]

\* OllamaLLMClient.generate_triage_report on client state c.
generate_triage_report(c) ==
  IF \/ ~settings_has("ollama_healthcheck_timeout_seconds")
     \/ ~settings_has("ollama_endpoints")
  THEN [c EXCEPT !.result = "AttributeError"]
  ELSE
    LET selected == IF c.cached # 0 THEN c.cached ELSE _first_healthy(c.tags, 1)
    IN
    IF selected = 0
    THEN [c EXCEPT !.result = "LLMConfigurationError"]
    ELSE IF c.cached = 0 /\ ~settings_has("ollama_endpoint_cache_ttl_seconds")
    THEN [c EXCEPT !.result = "AttributeError"]
    ELSE
      LET c1 == [c EXCEPT !.cached = selected, !.posts[selected] = @ + 1]
          next_endpoint == _first_healthy(c.tags, selected + 1)
      IN
      IF c.post[selected] # "error"
      THEN decode_response(c1, selected, 0)
      ELSE IF next_endpoint = 0
      THEN [c1 EXCEPT !.result = "LLMConfigurationError"]
      ELSE IF ~settings_has("ollama_endpoint_cache_ttl_seconds")
      THEN [c1 EXCEPT !.result = "AttributeError"]
      ELSE
        LET c2 == [c1 EXCEPT !.cached = next_endpoint,
                             !.posts[next_endpoint] = @ + 1]
        IN IF c.post[next_endpoint] = "error"
           THEN [c2 EXCEPT !.result = "LLMConfigurationError"]
           ELSE decode_response(c2, next_endpoint, 1)

\* A client in front of endpoints whose replies the environment fixes; its
\* endpoint cache is empty or holds an endpoint that has not expired.
InitLLM ==
  /\ InitStore
  /\ settings = DefaultSettings
  /\ redaction = NoTexts
  /\ call = NoCall
  /\ changes = {}
  /\ \E tags \in [Endpoints -> BOOLEAN], post \in [Endpoints -> PostReplies],
        cached \in 0..MaxEndpoints :
       llm = [NoClient EXCEPT !.pc = "ready", !.tags = tags, !.post = post,
                              !.cached = cached,
                              !.posts = [e \in Endpoints |-> 0]]

\* One call of the runner: the request counters and the metadata are those of
\* this call.
call_generate ==
  /\ llm.pc \in {"ready", "returned"}
  /\ llm.calls < MaxCalls
  /\ llm' = [generate_triage_report(
               [llm EXCEPT !.posts = [e \in Endpoints |-> 0],
                           !.llm_endpoint_used = 0,
                           !.endpoint_failover_count = 0])
             EXCEPT !.pc = "returned", !.calls = llm.calls + 1]
  /\ UNCHANGED <<core_vars, ingest_vars, settings, feedback, redaction, call, changes>>

\* The TTL of the cached endpoint runs out between two calls.
cache_expires ==
  /\ llm.pc = "returned"
  /\ llm.cached # 0
  /\ llm' = [llm EXCEPT !.cached = 0]
  /\ UNCHANGED <<core_vars, ingest_vars, settings, feedback, redaction, call, changes>>

NextLLM == call_generate \/ cache_expires

SpecLLM == InitLLM /\ [][NextLLM]_vars

\* The endpoint the call selects: the cached one, else the first healthy one.
SelectedEndpoint(c) ==
  IF c.cached # 0 THEN c.cached ELSE _first_healthy(c.tags, 1)

\* C14: when the POST to the selected endpoint fails with a transport error
\* and an endpoint later in the list is healthy, the call succeeds with one
\* POST to the failing endpoint, one to the later endpoint, llm_endpoint_used
\* the later endpoint and endpoint_failover_count 1.
C14_FailoverSucceedsOnce ==
  [][(call_generate
      /\ SelectedEndpoint(llm) # 0
      /\ llm.post[SelectedEndpoint(llm)] = "error"
      /\ _first_healthy(llm.tags, SelectedEndpoint(llm) + 1) # 0)
       => LET failing == SelectedEndpoint(llm)
              later == _first_healthy(llm.tags, failing + 1)
          IN /\ llm'.result = "ok"
             /\ llm'.posts[failing] = 1
             /\ llm'.posts[later] = 1
             /\ llm'.llm_endpoint_used = later
             /\ llm'.endpoint_failover_count = 1]_vars


\* The principal is no admin and its services hold neither the service of
\* the incident nor "*".
Unauthorized(p, k) ==
  /\ p.role # "admin"
  /\ service_of(k) \notin p.services
  /\ "*" \notin p.services

\* A request of p to one of the per-incident endpoints of incident k.
PerIncidentRequest(p, k) ==
  \/ get_incident(p, k)
  \/ get_incident_evidence(p, k)
  \/ get_incident_report(p, k)
  \/ list_incident_feedback(p, k)
  \/ create_incident_feedback(p, k)
  \/ \E d \in IncidentDecision, n \in NotesSet : decide_incident_report(p, k, d, n)
  \/ \E t \in IncidentStatusUpdate : update_incident_status(p, k, t, Null)

\* C15: a non-admin principal whose services hold neither the incident's
\* service nor "*" gets 403 from every per-incident endpoint, the request
\* leaves the incident and its related rows unchanged, and GET /incidents
\* returns to a principal only the incidents it is authorized for.
C15_ForbiddenWithoutService ==
  [][/\ \A p \in Principals, k \in Keys :
          (incidents[k].exists /\ Unauthorized(p, k) /\ PerIncidentRequest(p, k))
            => /\ last'.code = 403
               /\ UNCHANGED <<store_vars, feedback>>
     /\ \A p \in Principals :
          (last'.body.shape = "list" /\ list_incidents(p))
            => last'.body.items =
                 {k \in Keys : incidents[k].exists /\ ~Unauthorized(p, k)}]_vars

\* A request was refused for an incident that has a report and feedback.
C15_Witness ==
  \E k \in Keys :
    /\ last.code = 403
    /\ last.inc = k
    /\ incidents[k].exists
    /\ triage_reports[k] # {}
    /\ feedback[k]

\* C16 as stated: every request that completes successfully has committed at
\* least one AuditLog row with it.
C16_EveryRequestAudited == last.code = 200 => last.audit >= 1

\* C17 as stated: whenever a success PipelineRun of an incident is visible,
\* its TriageReport row and an EvidencePack are visible too.
C17_SuccessRunHasReport ==
  \A k \in Keys :
    pipeline_runs[k].success > 0
      => triage_reports[k] # {} /\ evidence_packs[k] # <<>>

\* C17 amended: the step that commits a success PipelineRun commits with it
\* the report row the run built, an EvidencePack for the alert the run
\* processed and the transition to awaiting_human_review; a report row
\* disappears only through the retention purge, which keeps the runs.
C17_SuccessCommitsWithReport ==
  [][\A k \in Keys :
       /\ pipeline_runs'[k].success # pipeline_runs[k].success
            => /\ pipeline_runs'[k].success = pipeline_runs[k].success + 1
               /\ workers["w1"].inc = k
               /\ triage_reports'[k] =
                    {[model |-> workers["w1"].model,
                      payload |-> workers["w1"].payload]}
               /\ Len(evidence_packs'[k]) = Len(evidence_packs[k]) + 1
               /\ evidence_packs'[k][Len(evidence_packs'[k])].alert_event_id =
                    workers["w1"].alert
               /\ incidents'[k].status = "awaiting_human_review"
       /\ (triage_reports[k] # {} /\ triage_reports'[k] = {})
            => /\ last'.body.shape = "purged"
               /\ pipeline_runs'[k] = pipeline_runs[k]]_vars

\* A success run whose report row and packs the purge has deleted.
C17_Witness ==
  \E k \in Keys :
    /\ pipeline_runs[k].success > 0
    /\ triage_reports[k] = {}
    /\ evidence_packs[k] = <<>>
    /\ last.body.shape = "purged"

\* C18 as stated: for a failed incident the report endpoint returns the
\* failure shape, also when a report row of an earlier run exists.
C18_FailedIncidentFailureShape ==
  [][\A p \in Principals, k \in Keys :
       (/\ incidents[k].exists
        /\ incidents[k].status = "failed"
        /\ ~Unauthorized(p, k)
        /\ get_incident_report(p, k))
         => /\ last'.code = 200
            /\ last'.body.shape = "failure"
            /\ last'.body.status = "failed"
            /\ last'.body.reason = incidents[k].last_error
            /\ last'.body.message = "LLM unavailable or not configured"]_vars

\* C19: a decision on an incident awaiting review sets triaged and clears
\* last_error (approve) or sets open with the notes, or the default text, as
\* last_error (reject), appends exactly one ReviewDecision and touches no
\* other; a decision on an incident not awaiting review gets 409 and writes
\* nothing, and only a triage run brings an incident back to awaiting review.
C19_DecisionOnce ==
  [][\A k \in Keys :
       /\ \A p \in Principals, d \in IncidentDecision, n \in NotesSet :
            (/\ last'.code \in {200, 409}
             /\ last'.body = NoBody
             /\ incidents[k].exists
             /\ ~Unauthorized(p, k)
             /\ decide_incident_report(p, k, d, n))
              => IF incidents[k].status = "awaiting_human_review"
                 THEN /\ last'.code = 200
                      /\ incidents'[k].status =
                           (IF d = "approve" THEN "triaged" ELSE "open")
                      /\ incidents'[k].last_error =
                           (IF d = "approve" THEN Null
                            ELSE IF n = Null THEN "report rejected by reviewer"
                            ELSE n)
                      /\ review_decisions'[k][d] = review_decisions[k][d] + 1
                      /\ \A e \in IncidentDecision \ {d} :
                           review_decisions'[k][e] = review_decisions[k][e]
                 ELSE /\ last'.code = 409
                      /\ UNCHANGED <<incidents, review_decisions>>
       /\ (/\ incidents'[k].status = "awaiting_human_review"
           /\ incidents[k].status # "awaiting_human_review")
            => pipeline_runs'[k].success = pipeline_runs[k].success + 1]_vars

\* A second round: a reject stored after an earlier approve.
C19_Witness ==
  \E k \in Keys :
    /\ last.code = 200
    /\ incidents[k].status = "open"
    /\ incidents[k].last_error = "report rejected by reviewer"
    /\ review_decisions[k].approve >= 1
    /\ review_decisions[k].reject >= 1


\* ---------------------------------------------------------------- redaction
MaxTexts == 2

\* A text is one of these, by the shape of what it holds: nothing secret, an
\* AWS access key, a bearer token, a password=/secret=/token= assignment, a
\* base64 run of 32 or more characters between non-word characters, or such
\* a run directly after an underscore (id_<run>).
Texts ==
  {"plain", "aws_access_key", "bearer_token", "assignment", "base64_run",
   "underscore_base64_run"}

\* The texts that hold a secret-shaped substring.
SecretShaped == Texts \ {"plain"}

\* _PATTERNS: the shapes one of the four expressions matches. The base64
\* expression is anchored by \b on both sides and there is no word boundary
\* between an underscore and the run.
_PATTERNS == {"aws_access_key", "bearer_token", "assignment", "base64_run"}

redact_text(text) == IF text \in _PATTERNS THEN "[REDACTED]" ELSE text

\* redact_object on a list of strings.
redact_object(value) == [i \in 1..Len(value) |-> redact_text(value[i])]

\* _build_llm_digest: the alert title and the texts of the artifacts.
_build_llm_digest(alert_title, artifacts) == <<alert_title>> \o artifacts

TextLists == UNION {[1..n -> Texts] : n \in 0..MaxTexts}

\* A run that has gathered its artifacts, under either storage setting.
InitRedaction ==
  /\ InitStore
  /\ settings = DefaultSettings
  /\ llm = NoClient
  /\ call = NoCall
  /\ changes = {}
  /\ \E title \in Texts, artifacts \in TextLists, raw \in BOOLEAN :
       redaction = [NoTexts EXCEPT !.pc = "gathered", !.alert_title = title,
                                   !.artifacts = artifacts,
                                   !.allow_raw_storage = raw]

\* The no-guess gate and, when it lets the run through, the call of the LLM
\* gateway with the redacted digest.
generate(no_guess_mode) ==
  /\ redaction.pc = "gathered"
  /\ redaction' =
       IF no_guess_mode THEN [redaction EXCEPT !.pc = "generated"]
       ELSE [redaction EXCEPT
               !.pc = "generated", !.called = TRUE,
               !.digest = redact_object(
                            _build_llm_digest(redaction.alert_title,
                                              redaction.artifacts))]
  /\ UNCHANGED <<core_vars, ingest_vars, settings, llm, feedback, call, changes>>

\* store_evidence_pack with artifacts_to_store.
persist_artifacts ==
  /\ redaction.pc = "generated"
  /\ redaction' =
       [redaction EXCEPT
          !.pc = "persisted",
          !.stored = IF redaction.allow_raw_storage \/ fixture_mode
                     THEN redaction.artifacts
                     ELSE redact_object(redaction.artifacts)]
  /\ UNCHANGED <<core_vars, ingest_vars, settings, llm, feedback, call, changes>>

NextRedaction ==
  \/ \E no_guess_mode \in BOOLEAN : generate(no_guess_mode)
  \/ persist_artifacts

SpecRedaction == InitRedaction /\ [][NextRedaction]_vars

\* C20: no secret-shaped text of the inputs is in the digest sent to the LLM
\* gateway, nor, when allow_raw_storage is false, in the stored artifacts.
C20_NoSecretLeaves ==
  /\ redaction.called
       => \A i \in 1..Len(redaction.digest) :
            redaction.digest[i] \notin SecretShaped
  /\ (redaction.pc = "persisted" /\ ~redaction.allow_raw_storage)
       => \A i \in 1..Len(redaction.stored) :
            redaction.stored[i] \notin SecretShaped


\* C21: at most one TriageReport row exists per incident, also when two runs
\* of the incident store their reports concurrently, and a successful run
\* leaves as the row of the incident the model and payload it built.
C21_OneReportPerIncident ==
  [][\A k \in Keys :
       /\ Cardinality(triage_reports'[k]) <= 1
       /\ pipeline_runs'[k].success # pipeline_runs[k].success
            => \E w \in Workers :
                 /\ workers[w].pc = "persist"
                 /\ workers[w].inc = k
                 /\ workers'[w].pc = "idle"
                 /\ triage_reports'[k] =
                      {[model |-> workers[w].model,
                        payload |-> workers[w].payload]}]_vars

\* A second concurrent insert was refused while the row of the first stays.
C21_Witness ==
  \E w \in Workers :
    /\ workers[w].pc = "raised"
    /\ Cardinality(triage_reports[workers[w].inc]) = 1
    /\ pipeline_runs[workers[w].inc].success >= 1


\* ---------------------------------------------------------------- hashing

MaxLabels == 2

\* Label names in str order, and the label dicts of an alert in the order
\* their items were inserted.
LabelNames == <<"a", "b">>

LabelItems == {<<LabelNames[i], v>> : i \in DOMAIN LabelNames, v \in {"1", "2"}}

LabelDicts ==
  {d \in UNION {[1..n -> LabelItems] : n \in 0..MaxLabels} :
     \A i, j \in DOMAIN d : i # j => d[i][1] # d[j][1]}

CorrelationIds == {Null, "", "req-1", "req-2"}

DedupArgs ==
  [service : {"svc", "other"}, env : {"prod"}, alarm_name : {"alarm"},
   labels : LabelDicts, correlation_id : CorrelationIds]

\* The items of a dict by ascending key, from position i of the key order.
RECURSIVE sorted_items(_, _)
sorted_items(labels, i) ==
  IF i > Len(LabelNames) THEN <<>>
  ELSE SelectSeq(labels, LAMBDA item : item[1] = LabelNames[i])
         \o sorted_items(labels, i + 1)

\* json.dumps(payload, sort_keys=True, separators=(",", ":")): the text as its
\* sequence of keys and values, the keys of the payload in str order.
json_dumps(service, env, alarm_name, correlation_id, labels) ==
  <<"alarm_name", alarm_name, "correlation_id", correlation_id,
    "env", env, "labels", labels, "service", service>>

\* The sha256 digest of a text, taken as free of collisions.
stable_hash(value) == [sha256 |-> value]

\* Variant: the labels are serialised in the order they were inserted.
dedup_key_for_insertion_order(service, env, alarm_name, labels, correlation_id) ==
  stable_hash(json_dumps(service, env, alarm_name,
                         IF correlation_id = Null THEN "" ELSE correlation_id,
                         labels))

dedup_key_for(service, env, alarm_name, labels, correlation_id) ==
  stable_hash(json_dumps(service, env, alarm_name,
                         IF correlation_id \in {Null, ""} THEN ""
                         ELSE correlation_id,
                         sorted_items(labels, 1)))

\* Two alerts whose dedup keys are about to be computed.
InitHashing ==
  /\ InitStore
  /\ settings = DefaultSettings
  /\ llm = NoClient
  /\ redaction = NoTexts
  /\ changes = {}
  /\ \E a \in DedupArgs, b \in DedupArgs :
       call = [fn |-> "dedup_key_for", pc |-> "args", a |-> a, b |-> b,
               key_a |-> Null, key_b |-> Null]

call_dedup_key_for ==
  /\ call.fn = "dedup_key_for"
  /\ call.pc = "args"
  /\ call' = [call EXCEPT
                !.pc = "done",
                !.key_a = dedup_key_for(call.a.service, call.a.env,
                                        call.a.alarm_name, call.a.labels,
                                        call.a.correlation_id),
                !.key_b = dedup_key_for(call.b.service, call.b.env,
                                        call.b.alarm_name, call.b.labels,
                                        call.b.correlation_id)]
  /\ UNCHANGED rest_vars

NextHashing == call_dedup_key_for

SpecHashing == InitHashing /\ [][NextHashing]_vars

\* The label map of an alert as a set of pairs.
LabelSet(labels) == {labels[i] : i \in DOMAIN labels}

\* C22: two alerts get the same dedup key exactly when they agree on service,
\* env, resource key, the label map taken as a set of pairs, and the
\* correlation id with null read as the empty string.
C22_DedupKeyIsFunctionOfFields ==
  (call.fn = "dedup_key_for" /\ call.pc = "done")
    => ((call.key_a = call.key_b)
          <=> /\ call.a.service = call.b.service
              /\ call.a.env = call.b.env
              /\ call.a.alarm_name = call.b.alarm_name
              /\ LabelSet(call.a.labels) = LabelSet(call.b.labels)
              /\ (IF call.a.correlation_id = Null THEN ""
                  ELSE call.a.correlation_id)
                   = (IF call.b.correlation_id = Null THEN ""
                      ELSE call.b.correlation_id))

\* The same two labels inserted in opposite orders got the same key.
C22_Witness ==
  /\ call.fn = "dedup_key_for"
  /\ call.pc = "done"
  /\ Len(call.a.labels) = 2
  /\ call.a.labels # call.b.labels
  /\ call.key_a = call.key_b


\* ---------------------------------------------------------- ingest boundary

MaxChanges == 2

\* The Authorization header of a request: absent, a bearer token that is not
\* base64url JSON, the shared token, or a token carrying claims.
Credentials ==
  [token : {"missing", "undecodable", "shared"}, claims : {Admin}]
    \cup [token : {"claims"}, claims : Principals]

\* The HTTPException(401) of require_auth, as the principal it never returns.
Unauthenticated == [role |-> Null, services |-> {}, can_ingest |-> FALSE]

\* require_auth with auth enabled.
require_auth(credentials) ==
  IF credentials.token \in {"missing", "undecodable"} THEN Unauthenticated
  ELSE IF credentials.token = "shared"
       THEN [role |-> "admin", services |-> {"*"}, can_ingest |-> TRUE]
       ELSE credentials.claims

\* The texts a timestamp field of a CloudWatch event can carry; Null is an
\* absent field.
TimestampTexts == {Null, "", "not-a-time", "2026-02-06T12:00:00Z"}

\* isoparse accepts the text.
isoparse_ok(text) == text = "2026-02-06T12:00:00Z"

\* Bodies of POST /alerts/cloudwatch: detail (absent, or with its
\* state.timestamp) and the envelope's time.
CloudWatchPayloads ==
  [detail : {[present |-> FALSE, state_timestamp |-> Null]}
              \cup [present : {TRUE}, state_timestamp : TimestampTexts],
   time : TimestampTexts]

\* CloudWatchAlarmEnvelope validation: detail, detail.state.timestamp and
\* time are required strings.
CloudWatchAlarmEnvelope(payload) ==
  /\ payload.detail.present
  /\ payload.detail.state_timestamp # Null
  /\ payload.time # Null

\* CloudWatchAlertAdapter.normalize: "ok" or the exception it raises.
normalize(payload) ==
  IF ~payload.detail.present THEN "CloudWatchNormalizationError"
  ELSE LET fired_time ==
             IF payload.detail.state_timestamp \notin {Null, ""}
             THEN payload.detail.state_timestamp
             ELSE payload.time
       IN IF fired_time \in {Null, ""} THEN "CloudWatchNormalizationError"
          ELSE IF ~isoparse_ok(fired_time) THEN "ValueError"
          ELSE "ok"

\* An exception no handler of the app catches: the server answers 500.
Unhandled(kind, k) == [Response(500, k) EXCEPT !.kind = kind]

\* create_deployment_event / create_config_change: one more row.
create_change(rows, type, at) ==
  rows \cup {[id |-> Cardinality(rows) + 1, type |-> type,
              service |-> "checkout", env |-> "prod", at |-> at]}

\* POST /alerts/cloudwatch with its dependencies: require_auth, validation of
\* the body, then the route.
v1_alerts_cloudwatch(credentials, payload, k) ==
  LET principal == require_auth(credentials) IN
  /\ IF principal = Unauthenticated
     THEN last' = Response(401, k) /\ UNCHANGED store_vars
     ELSE IF ~CloudWatchAlarmEnvelope(payload)
     THEN last' = Response(422, k) /\ UNCHANGED store_vars
     ELSE IF ~require_ingest(principal)
     THEN last' = Response(403, k) /\ UNCHANGED store_vars
     ELSE IF normalize(payload) # "ok"
     THEN last' = Unhandled(normalize(payload), k) /\ UNCHANGED store_vars
     ELSE /\ ingest_alert(k)
          /\ last' = Reply(k, Shape("ingested"), 0)
  /\ UNCHANGED aux_vars

\* POST /alerts/alertmanager; AlertmanagerAdapter.normalize raises nothing.
post_alertmanager_alert(credentials, envelope_ok, k) ==
  LET principal == require_auth(credentials) IN
  /\ IF principal = Unauthenticated
     THEN last' = Response(401, k) /\ UNCHANGED store_vars
     ELSE IF ~envelope_ok
     THEN last' = Response(422, k) /\ UNCHANGED store_vars
     ELSE IF ~require_ingest(principal)
     THEN last' = Response(403, k) /\ UNCHANGED store_vars
     ELSE /\ ingest_alert(k)
          /\ last' = Reply(k, Shape("ingested"), 0)
  /\ UNCHANGED aux_vars

\* POST /changes/deployments and POST /changes/config: the row and its
\* AuditLog row in one commit.
ingest_change(credentials, body_ok, type, at) ==
  LET principal == require_auth(credentials) IN
  /\ IF principal = Unauthenticated
     THEN last' = Response(401, Null) /\ UNCHANGED changes
     ELSE IF ~body_ok
     THEN last' = Response(422, Null) /\ UNCHANGED changes
     ELSE IF ~require_ingest(principal)
     THEN last' = Response(403, Null) /\ UNCHANGED changes
     ELSE /\ Cardinality(changes) < MaxChanges
          /\ changes' = create_change(changes, type, at)
          /\ last' = Reply(Null, Shape("change"), 1)
  /\ UNCHANGED <<store_vars, ingest_vars, settings, llm, feedback, redaction,
                 call>>

ingest_deployment_change(credentials, body_ok, at) ==
  ingest_change(credentials, body_ok, "deploy", at)

ingest_config_change(credentials, body_ok, at) ==
  ingest_change(credentials, body_ok, "config", at)

NextBoundary ==
  \/ \E c \in Credentials, payload \in CloudWatchPayloads, k \in Keys :
       v1_alerts_cloudwatch(c, payload, k)
  \/ \E c \in Credentials, envelope_ok \in BOOLEAN, k \in Keys :
       post_alertmanager_alert(c, envelope_ok, k)
  \/ \E c \in Credentials, body_ok \in BOOLEAN, at \in {0} :
       ingest_deployment_change(c, body_ok, at)
  \/ \E c \in Credentials, body_ok \in BOOLEAN, at \in {0} :
       ingest_config_change(c, body_ok, at)

SpecBoundary == Init /\ [][NextBoundary]_vars

\* C23: an alert POST by a principal allowed to ingest whose payload fails
\* envelope validation or cannot be normalized is answered 422 and persists
\* nothing and enqueues nothing.
C23_UnnormalizableIs422 ==
  [][\A c \in Credentials, payload \in CloudWatchPayloads, k \in Keys :
       (/\ require_ingest(require_auth(c))
        /\ ~CloudWatchAlarmEnvelope(payload) \/ normalize(payload) # "ok"
        /\ v1_alerts_cloudwatch(c, payload, k))
         => /\ last'.code = 422
            /\ UNCHANGED <<store_vars, changes>>]_vars


\* A request to one of the four ingest routes with these credentials and a
\* body that passes (or fails) the validation of the route.
IngestRequest(c, body_ok) ==
  \/ \E payload \in CloudWatchPayloads, k \in Keys :
       /\ CloudWatchAlarmEnvelope(payload) = body_ok
       /\ v1_alerts_cloudwatch(c, payload, k)
  \/ \E k \in Keys : post_alertmanager_alert(c, body_ok, k)
  \/ \E at \in {0} : ingest_deployment_change(c, body_ok, at)
  \/ \E at \in {0} : ingest_config_change(c, body_ok, at)

\* The principal is authenticated but may not ingest.
MayNotIngest(c) ==
  /\ require_auth(c) # Unauthenticated
  /\ require_auth(c).role # "admin"
  /\ ~require_auth(c).can_ingest

triage_window_minutes == 10

\* The alert fires at minute 20; the minutes at which a change can have
\* happened lie on the bounds of the default and the expanded window, inside
\* and outside them, and outside the narrowed window.
FiredAt == 20

ChangeTimes == {4, 5, 10, 20, 30, 35, 36}

ChangeRows ==
  [type : {"deploy", "config"},
   scope : {<<"checkout", "prod">>, <<"checkout", "staging">>,
            <<"billing", "prod">>},
   at : ChangeTimes]

\* The latest alert of the incident, as far as the window depends on it.
AlertKinds ==
  {[has_correlation_id |-> TRUE, severity |-> "info"],
   [has_correlation_id |-> FALSE, severity |-> "critical"],
   [has_correlation_id |-> FALSE, severity |-> "info"]}

\* _compute_window with around: int(base_minutes * multiplier), at least 5.
_compute_window(alert_fired_at, has_correlation_id, severity, base_minutes) ==
  LET scaled == IF has_correlation_id THEN (base_minutes * 8) \div 10
                ELSE IF severity \in {"critical", "high"}
                     THEN (base_minutes * 15) \div 10
                     ELSE base_minutes
      minutes == IF scaled < 5 THEN 5 ELSE scaled
  IN <<alert_fired_at - minutes, alert_fired_at + minutes>>

\* Rows by descending time.
RECURSIVE order_by_desc(_)
order_by_desc(rows) ==
  IF rows = {} THEN <<>>
  ELSE LET first == CHOOSE r \in rows : \A q \in rows : q.at <= r.at
       IN <<first>> \o order_by_desc(rows \ {first})

\* Variant: the bounds of the window are excluded.
list_recent_changes_exclusive(type, service, env, since, until) ==
  order_by_desc({r \in changes : /\ r.type = type
                                 /\ r.service = service
                                 /\ r.env = env
                                 /\ r.at > since
                                 /\ r.at < until})

\* list_recent_deployments and list_recent_config_changes.
list_recent_changes(type, service, env, since, until) ==
  order_by_desc({r \in changes : /\ r.type = type
                                 /\ r.service = service
                                 /\ r.env = env
                                 /\ r.at >= since
                                 /\ r.at <= until})

\* The events of the timeline artifact.
timeline_events(fired_at, recent_deploys, recent_config) ==
  <<[type |-> "alert", time |-> fired_at, row |-> 0]>>
    \o [i \in DOMAIN recent_deploys |->
          [type |-> "deploy", time |-> recent_deploys[i].at,
           row |-> recent_deploys[i].id]]
    \o [i \in DOMAIN recent_config |->
          [type |-> "config", time |-> recent_config[i].at,
           row |-> recent_config[i].id]]

\* An incident of (checkout, prod) whose run is past the idempotence gate,
\* and the change rows of the database.
InitTimeline ==
  /\ InitStore
  /\ settings = DefaultSettings
  /\ llm = NoClient
  /\ redaction = NoTexts
  /\ \E alert \in AlertKinds :
       call = [fn |-> "timeline", pc |-> "gate", alert |-> alert,
               service |-> "checkout", env |-> "prod",
               time_window_start |-> 0, time_window_end |-> 0,
               events |-> <<>>]
  /\ \E n \in 0..MaxChanges : \E f \in [1..n -> ChangeRows] :
       changes = {[id |-> i, type |-> f[i].type, service |-> f[i].scope[1],
                   env |-> f[i].scope[2], at |-> f[i].at] : i \in 1..n}

\* triage_incident_sync from the window to the stored pack, for the timeline.
gather_timeline ==
  /\ call.fn = "timeline"
  /\ call.pc = "gate"
  /\ LET window == _compute_window(FiredAt, call.alert.has_correlation_id,
                                   call.alert.severity, triage_window_minutes)
         recent_deploys == list_recent_changes("deploy", call.service, call.env,
                                               window[1], window[2])
         recent_config == list_recent_changes("config", call.service, call.env,
                                              window[1], window[2])
     IN call' = [call EXCEPT
                   !.pc = "stored",
                   !.time_window_start = window[1],
                   !.time_window_end = window[2],
                   !.events = timeline_events(FiredAt, recent_deploys,
                                              recent_config)]
  /\ UNCHANGED rest_vars

NextTimeline == gather_timeline

SpecTimeline == InitTimeline /\ [][NextTimeline]_vars

\* The positions of the timeline that show this row.
EventsOf(r) ==
  {i \in DOMAIN call.events :
     call.events[i].type = r.type /\ call.events[i].row = r.id}

\* C25: the timeline of a stored pack has exactly one alert event, carrying
\* the alert's time, exactly one event for each deploy and config row of the
\* incident's service and env inside the stored window (bounds included),
\* and no other event.
C25_TimelineIsWindowedChanges ==
  (call.fn = "timeline" /\ call.pc = "stored")
    => LET inside == {r \in changes :
                        /\ r.service = call.service
                        /\ r.env = call.env
                        /\ call.time_window_start <= r.at
                        /\ r.at <= call.time_window_end}
       IN /\ Cardinality({i \in DOMAIN call.events :
                            call.events[i].type = "alert"}) = 1
          /\ \A i \in DOMAIN call.events :
               call.events[i].type = "alert" => call.events[i].time = FiredAt
          /\ \A r \in changes :
               Cardinality(EventsOf(r)) = IF r \in inside THEN 1 ELSE 0
          /\ Len(call.events) = 1 + Cardinality(inside)
          /\ call.time_window_start < FiredAt
          /\ call.time_window_end - FiredAt = FiredAt - call.time_window_start

\* A stored timeline with a change on a bound of the window shown and a
\* change of another service or env left out.
C25_Witness ==
  /\ call.fn = "timeline"
  /\ call.pc = "stored"
  /\ \E r \in changes :
       r.at = call.time_window_start /\ Cardinality(EventsOf(r)) = 1
  /\ \E r \in changes :
       r.service # call.service /\ r.at = FiredAt


\* ----------------------------------------------------------- upsert_incident

\* The incidents table as a set of rows: the columns upsert_incident never
\* writes after the insert, and the ones it does.
UpsertKeys == {"k1", "k2"}

IncidentRowsOf(k) ==
  {[dedup_key |-> k, service |-> "checkout", env |-> "prod",
    inc |-> [exists |-> TRUE, status |-> s,
             last_error |-> IF s = "failed" THEN "RuntimeError" ELSE Null,
             latest_alert_event_id |-> 1]] : s \in IncidentStatus}

IncidentTables ==
  {UNION {t[k] : k \in UpsertKeys} :
     t \in [UpsertKeys -> {{}} \cup {{r} : r \in UNION {IncidentRowsOf(k) :
                                                     k \in UpsertKeys}}]}

\* Variant: the row is inserted without the select by dedup_key.
upsert_incident_row_insert_only(table, dedup_key, service, env, alert_event_id) ==
  table \cup {[dedup_key |-> dedup_key, service |-> service, env |-> env,
               inc |-> upsert_incident(NoIncident, alert_event_id)]}

\* upsert_incident on the table: select by dedup_key, insert or update.
upsert_incident_row(table, dedup_key, service, env, alert_event_id) ==
  LET incident == {r \in table : r.dedup_key = dedup_key} IN
  IF incident = {}
  THEN table \cup {[dedup_key |-> dedup_key, service |-> service, env |-> env,
                    inc |-> upsert_incident(NoIncident, alert_event_id)]}
  ELSE (table \ incident)
         \cup {[r EXCEPT !.inc = upsert_incident(@, alert_event_id)] :
                 r \in incident}

\* A table with at most one row per dedup_key and the arguments of one call.
InitUpsert ==
  /\ InitStore
  /\ settings = DefaultSettings
  /\ llm = NoClient
  /\ redaction = NoTexts
  /\ changes = {}
  /\ \E table \in IncidentTables, k \in UpsertKeys,
        service \in {"checkout", "billing"} :
       /\ \A r \in table : \A q \in table : r.dedup_key = q.dedup_key => r = q
       /\ call = [fn |-> "upsert_incident", pc |-> "args", table |-> table,
                  dedup_key |-> k, service |-> service, env |-> "prod",
                  alert_event_id |-> 2, result |-> {}]

call_upsert_incident ==
  /\ call.fn = "upsert_incident"
  /\ call.pc = "args"
  /\ call' = [call EXCEPT
                !.pc = "done",
                !.result = upsert_incident_row(call.table, call.dedup_key,
                                               call.service, call.env,
                                               call.alert_event_id)]
  /\ UNCHANGED rest_vars

NextUpsert == call_upsert_incident

SpecUpsert == InitUpsert /\ [][NextUpsert]_vars

\* C26: upsert_incident leaves exactly one row of the key, pointing at the
\* new alert; a new row is open and carries the arguments; an existing row
\* keeps dedup_key, service and env, is reopened with last_error null from
\* failed, awaiting_human_review, triaged, mitigated, resolved and
\* postmortem_required, and keeps status and last_error when open or
\* triaging; the rows of other keys are untouched.
C26_UpsertIncident ==
  (call.fn = "upsert_incident" /\ call.pc = "done")
    => LET before == {r \in call.table : r.dedup_key = call.dedup_key}
           after == {r \in call.result : r.dedup_key = call.dedup_key}
       IN /\ Cardinality(after) = 1
          /\ call.result \ after = call.table \ before
          /\ \A r \in after :
               /\ r.inc.latest_alert_event_id = call.alert_event_id
               /\ before = {}
                    => /\ r.inc.status = "open"
                       /\ r.service = call.service
                       /\ r.env = call.env
               /\ \A b \in before :
                    /\ r.service = b.service
                    /\ r.env = b.env
                    /\ b.inc.status \in {"failed", "awaiting_human_review",
                                         "triaged", "mitigated", "resolved",
                                         "postmortem_required"}
                         => r.inc.status = "open" /\ r.inc.last_error = Null
                    /\ b.inc.status \in {"open", "triaging"}
                         => /\ r.inc.status = b.inc.status
                            /\ r.inc.last_error = b.inc.last_error

\* A call for the key of a failed incident, made with another service name,
\* reopened the row and left its service.
C26_Witness ==
  /\ call.fn = "upsert_incident"
  /\ call.pc = "done"
  /\ \E b \in call.table :
       /\ b.dedup_key = call.dedup_key
       /\ b.inc.status = "failed"
       /\ b.service # call.service
  /\ \E r \in call.result :
       r.dedup_key = call.dedup_key /\ r.inc.status = "open"


\* ------------------------------------------------------- the no-guess gate

\* Alerts and the triage runs of a single worker under the default settings.
SpecGate == Init /\ [][NextForced]_vars

\* The report _fallback_insufficient_report builds for this alert, in full.
IsNoGuessFallback(model, payload, alert, nq) ==
  /\ model = "fallback:no-guess"
  /\ payload.mode = "insufficient_evidence"
  /\ payload.facts = <<>>
  /\ payload.hypotheses = <<>>
  /\ payload.mitigations = <<>>
  /\ Len(payload.next_checks) = 2
  /\ \A i \in 1..2 :
       payload.next_checks[i]
         = {<<"logs_query", alert, j>> : j \in 1..(IF nq < 2 THEN nq ELSE 2)}

\* C27: a run past the idempotence gate whose evidence was gathered calls the
\* LLM gateway exactly when the score is at least the effective threshold
\* and the logs_query artifacts are at least the required count: then it
\* ends in a gateway report or a gateway failure, never in the fallback;
\* otherwise it shows no outcome of the gateway and holds, and then stores,
\* the fallback report with two next_checks citing the first (at most two)
\* logs_query artifacts under the model name fallback:no-guess.
C27_GatewayIffConfident ==
  [][/\ \A nq \in QueryCounts, score \in Scores :
          RunnerBuildWith("w1", nq, score)
            => LET confident == /\ score >= effective_confidence_threshold
                                /\ nq >= required_query_refs(nq)
                   evidence_failed == /\ ~fixture_mode
                                      /\ nq > 0
                                      /\ last'.kind = "RuntimeError"
                   held == workers'["w1"].pc = "persist"
               IN IF confident
                  THEN \/ held /\ workers'["w1"].model = "local_llm_model"
                       \/ ~held /\ last'.kind \in {"LLMConfigurationError",
                                                  "RuntimeError",
                                                  "ValidationError"}
                  ELSE \/ evidence_failed
                       \/ /\ held
                          /\ IsNoGuessFallback(workers'["w1"].model,
                                               workers'["w1"].payload,
                                               workers["w1"].alert, nq)
     /\ (RunnerPersist("w1") /\ workers["w1"].model = "fallback:no-guess")
          => \/ workers'["w1"].pc = "raised"
             \/ triage_reports'[workers["w1"].inc]
                  = {[model |-> workers["w1"].model,
                      payload |-> workers["w1"].payload]}]_vars

\* A stored fallback report of a run whose three logs_query artifacts scored
\* below the threshold.
C27_Witness ==
  \E k \in Keys : \E row \in triage_reports[k] :
    /\ IsNoGuessFallback(row.model, row.payload, alert_events[k], 3)
    /\ evidence_packs[k] # <<>>
    /\ evidence_packs[k][Len(evidence_packs[k])].nq = 3


\* ------------------------------------------- the gateway's requests per call

\* The endpoints the call sent a POST to.
Posted(c) == {e \in Endpoints : c.posts[e] > 0}

\* C28: a call sends at most two POSTs, to distinct endpoints, the second only
\* after the POST to the selected endpoint failed with a transport error and
\* only to the first healthy endpoint after it; when no later endpoint is
\* healthy or the second POST fails too the call raises
\* LLMConfigurationError; a successful call reports endpoint_failover_count 0
\* after one POST and 1 after two.
C28_AtMostOneFailover ==
  [][call_generate
       => LET selected == SelectedEndpoint(llm)
              later == _first_healthy(llm.tags, selected + 1)
          IN /\ \A e \in Endpoints : llm'.posts[e] <= 1
             /\ Cardinality(Posted(llm')) <= 2
             /\ \A e \in Posted(llm') \ {selected} :
                  /\ llm.post[selected] = "error"
                  /\ e = later
             /\ (/\ selected # 0
                 /\ llm.post[selected] = "error"
                 /\ later = 0 \/ llm.post[later] = "error")
                  => llm'.result = "LLMConfigurationError"
             /\ llm'.result = "ok"
                  => llm'.endpoint_failover_count
                       = Cardinality(Posted(llm')) - 1]_vars

\* C29: a call without a valid cached endpoint sends its first POST to the
\* first healthy endpoint in configured order, skipping the unhealthy ones;
\* when none is healthy it raises LLMConfigurationError and sends no POST.
C29_FirstHealthySelected ==
  [][(call_generate /\ llm.cached = 0)
       => LET first == _first_healthy(llm.tags, 1)
          IN IF first = 0
             THEN llm'.result = "LLMConfigurationError" /\ Posted(llm') = {}
             ELSE /\ llm'.posts[first] = 1
                  /\ \A e \in Posted(llm') : e >= first /\ llm.tags[e]]_vars

AttachFiredAt == {100, 120}

DeployTimes == {9, 10, 100, 110}

\* DeploymentEventORM rows of the incident's service and env; version and
\* git_sha are nullable, and a version can be the empty string.
DeployRows ==
  [at : DeployTimes, version : {Null, "", "1.2.99"},
   git_sha : {Null, "deadbeef"}]

\* The rows a descending order by time can put first.
MostRecent(rows) == {r \in rows : \A q \in rows : q.at <= r.at}

\* Python's `a or b` on nullable strings: None and "" are falsy.
Or(a, b) == IF a \in {Null, ""} THEN b ELSE a

\* Variant: the fields are assigned from the deploy as they are.
attach_incident_version_overwrite(incident, version, git_sha) ==
  [incident EXCEPT !.service_version = version, !.git_sha = git_sha]

attach_incident_version(incident, version, git_sha) ==
  [incident EXCEPT !.service_version = Or(version, @),
                   !.git_sha = Or(git_sha, @)]

\* A new incident of (checkout, prod) without version fields, and the
\* deployment rows of the database.
InitAttach ==
  /\ InitStore
  /\ settings = DefaultSettings
  /\ llm = NoClient
  /\ redaction = NoTexts
  /\ call = [fn |-> "attach_incident_version", fired_at |-> 0,
             service_version |-> Null, git_sha |-> Null,
             since |-> 0, until |-> 0]
  /\ \E n \in 0..MaxChanges : \E f \in [1..n -> DeployRows] :
       changes = {[id |-> i, type |-> "deploy", service |-> "checkout",
                   env |-> "prod", at |-> f[i].at, version |-> f[i].version,
                   git_sha |-> f[i].git_sha] : i \in 1..n}

\* The attach step shared by ingestion and the triage run: the most recent
\* deploy of the window, if there is one.
attach_from_window(fired_at, since, until) ==
  LET recent_deploys ==
        {r \in changes : /\ r.type = "deploy"
                         /\ r.service = "checkout"
                         /\ r.env = "prod"
                         /\ r.at >= since
                         /\ r.at <= until}
  IN
  /\ call.fn = "attach_incident_version"
  /\ IF recent_deploys = {}
     THEN call' = [call EXCEPT !.fired_at = fired_at, !.since = since,
                               !.until = until]
     ELSE \E latest \in MostRecent(recent_deploys) :
            call' = [attach_incident_version(call, latest.version,
                                             latest.git_sha)
                     EXCEPT !.fired_at = fired_at, !.since = since,
                            !.until = until]
  /\ UNCHANGED rest_vars

\* _ingest_normalized_event: deploys of the 90 minutes before the alert.
ingest_attach(fired_at) ==
  attach_from_window(fired_at, fired_at - 90, fired_at)

\* triage_incident_sync: deploys of the evidence window of the latest alert.
triage_attach(alert) ==
  /\ call.fired_at # 0
  /\ LET window == _compute_window(call.fired_at, alert.has_correlation_id,
                                   alert.severity, triage_window_minutes)
     IN attach_from_window(call.fired_at, window[1], window[2])

NextAttach ==
  \/ \E fired_at \in AttachFiredAt : ingest_attach(fired_at)
  \/ \E alert \in AlertKinds : triage_attach(alert)

SpecAttach == InitAttach /\ [][NextAttach]_vars

\* The deploys of the window the step looked at.
InWindow(c) == {r \in changes : r.at >= c.since /\ r.at <= c.until}

\* C31: a version field of the incident that is non-null never becomes null
\* again; an attach step changes a field only to the non-null value of a
\* most recent deploy of its window, and leaves it as it was when that value
\* is null or the window holds no deploy.
C31_VersionNeverCleared ==
  [][/\ call.service_version # Null => call'.service_version # Null
     /\ call.git_sha # Null => call'.git_sha # Null
     /\ call'.service_version # call.service_version
          => \E r \in MostRecent(InWindow(call')) :
               r.version # Null /\ call'.service_version = r.version
     /\ call'.git_sha # call.git_sha
          => \E r \in MostRecent(InWindow(call')) :
               r.git_sha # Null /\ call'.git_sha = r.git_sha
     /\ (\A r \in MostRecent(InWindow(call')) : r.version = Null)
          => call'.service_version = call.service_version
     /\ (\A r \in MostRecent(InWindow(call')) : r.git_sha = Null)
          => call'.git_sha = call.git_sha]_vars

\* The incident kept its version and git_sha through a step whose most
\* recent deploy carries neither.
C31_Witness ==
  /\ call.fn = "attach_incident_version"
  /\ call.service_version = "1.2.99"
  /\ call.git_sha = "deadbeef"
  /\ \E r \in MostRecent(InWindow(call)) :
       r.version = Null /\ r.git_sha = Null


\* --------------------------------------- the transactions of a triage run

MaxQueries == 2

MaxFrames == 2

\* The tables a run writes rows of, the PipelineRun by its status and the
\* AuditLog by its action.
RunWrites ==
  {"TriageReport", "EvidencePack", "PipelineRun:success",
   "PipelineRun:failed", "AuditLog:llm.generate"}

\* A run about to start: the queries of its query library, the stack frames
\* its logs will show, and the writes its session has flushed but not
\* committed (their number, and the tables they go to); outbound is the call
\* in flight, if any; rows are the writes of the run committed so far,
\* status the committed status of the incident, and gateway whether the run
\* has called the LLM gateway.
InitRun ==
  /\ InitStore
  /\ settings = DefaultSettings
  /\ llm = NoClient
  /\ redaction = NoTexts
  /\ changes = {}
  /\ \E queries \in 0..MaxQueries, frames \in 0..MaxFrames :
       call = [fn |-> "triage_incident_sync", pc |-> "start",
               queries |-> queries, frames |-> frames, attached |-> FALSE,
               uncommitted |-> 0, outbound |-> Null, pending |-> {},
               rows |-> {}, status |-> "open", gateway |-> FALSE]

RunStep(pc) ==
  /\ call.fn = "triage_incident_sync"
  /\ call.pc = pc
  /\ call.outbound = Null
  /\ UNCHANGED rest_vars

\* set_incident_status(triaging) and commit; the reads of the gate; with a
\* deploy in the window attach_incident_version and commit.
run_begin(has_deploy) ==
  /\ RunStep("start")
  /\ call' = [call EXCEPT !.pc = "logs", !.attached = has_deploy,
                          !.uncommitted = 0, !.status = "triaging"]

\* logs_adapter.fetch_logs for the next query.
fetch_logs ==
  /\ RunStep("logs")
  /\ IF call.queries > 0
     THEN call' = [call EXCEPT !.queries = @ - 1, !.outbound = "fetch_logs"]
     ELSE call' = [call EXCEPT !.pc = "snippets"]

\* snippet_fetcher.snippet_for_file_line for the next stack frame, then
\* recent_commits.
fetch_snippets ==
  /\ RunStep("snippets")
  /\ IF call.frames > 0
     THEN call' = [call EXCEPT !.frames = @ - 1,
                               !.outbound = "snippet_for_file_line"]
     ELSE call' = [call EXCEPT !.pc = "gate", !.outbound = "recent_commits"]

\* The no-guess gate: the fallback report, or create_audit_log (add and
\* flush) followed by llm_client.generate_triage_report.
run_gate(no_guess_mode) ==
  /\ RunStep("gate")
  /\ IF no_guess_mode
     THEN call' = [call EXCEPT !.pc = "persist"]
     ELSE call' = [call EXCEPT !.pc = "persist", !.uncommitted = @ + 1,
                               !.pending = @ \cup {"AuditLog:llm.generate"},
                               !.gateway = TRUE,
                               !.outbound = "generate_triage_report"]

\* TriageReportPayload.model_validate, which may refuse what the gateway
\* returned; then store_triage_report, set_incident_status,
\* store_evidence_pack, create_pipeline_run, commit; then the notifier.
run_persist(valid) ==
  /\ RunStep("persist")
  /\ valid \/ "AuditLog:llm.generate" \in call.pending
  /\ IF ~valid
     THEN call' = [call EXCEPT !.pc = "except"]
     ELSE call' = [call EXCEPT
                     !.pc = "closed", !.uncommitted = 0, !.pending = {},
                     !.rows = @ \cup call.pending
                                \cup {"TriageReport", "EvidencePack",
                                      "PipelineRun:success"},
                     !.status = "awaiting_human_review",
                     !.outbound = "notify"]

\* The except clauses: set_incident_status(failed), create_pipeline_run,
\* commit (of everything the session has flushed); then the notifier.
run_except ==
  /\ RunStep("except")
  /\ call' = [call EXCEPT
                !.pc = "closed", !.uncommitted = 0, !.pending = {},
                !.rows = @ \cup call.pending \cup {"PipelineRun:failed"},
                !.status = "failed",
                !.outbound = "notify"]

\* Variant: an error of the notifier reaches the except clauses.
outbound_returns_notifier_raises(raises) ==
  /\ call.fn = "triage_incident_sync"
  /\ call.outbound # Null
  /\ call' = [call EXCEPT
                !.outbound = Null,
                !.pc = IF raises /\ call.status # "failed" THEN "except" ELSE @]
  /\ UNCHANGED rest_vars

\* The call in flight returns, or raises into the except clauses (the
\* notifier swallows its own errors).
outbound_returns(raises) ==
  /\ call.fn = "triage_incident_sync"
  /\ call.outbound # Null
  /\ call' = [call EXCEPT
                !.outbound = Null,
                !.pc = IF raises /\ call.outbound # "notify" THEN "except"
                       ELSE @]
  /\ UNCHANGED rest_vars

NextRun ==
  \/ \E has_deploy \in BOOLEAN : run_begin(has_deploy)
  \/ fetch_logs
  \/ fetch_snippets
  \/ \E no_guess_mode \in BOOLEAN : run_gate(no_guess_mode)
  \/ \E valid \in BOOLEAN : run_persist(valid)
  \/ run_except
  \/ \E raises \in BOOLEAN : outbound_returns(raises)

SpecRun == InitRun /\ [][NextRun]_vars

\* C32 as stated: while an outbound call of the run is in flight, the
\* session of the run holds no flushed, uncommitted write.
C32_NoWriteAcrossOutbound ==
  (call.fn = "triage_incident_sync" /\ call.outbound # Null)
    => call.uncommitted = 0


\* C33 as stated: once every triage task enqueued for an incident has been
\* executed to completion by the worker (nothing cancelled, nothing
\* delivered twice), the incident is not in status triaging.
C33_CompletedTasksLeaveTriaging ==
  \A k \in Keys :
    (incidents[k].exists /\ ~Queued(k) /\ ~Running(k))
      => incidents[k].status # "triaging"


\* ------------------------------------------- the decision endpoint, in steps

\* decide_incident_report up to its status check: get_incident reads the row
\* without a lock; the request is refused here or goes on to its writes.
decide_check(p, k, decision) ==
  /\ call = NoCall
  /\ IF ~incidents[k].exists
     THEN last' = Response(404, k) /\ UNCHANGED call
     ELSE IF ~authorize_service(p, service_of(k))
     THEN last' = Response(403, k) /\ UNCHANGED call
     ELSE IF incidents[k].status # "awaiting_human_review"
     THEN last' = Response(409, k) /\ UNCHANGED call
     ELSE /\ last' = NoOp
          /\ call' = [fn |-> "decide_incident_report", inc |-> k,
                      decision |-> decision]
  /\ UNCHANGED <<store_vars, ingest_vars, settings, llm, feedback, redaction,
                 changes>>

\* The writes of the request and its commit: the UPDATE of the incident row
\* by primary key, the ReviewDecision and the AuditLog row.
decide_commit ==
  /\ call # NoCall
  /\ call.fn = "decide_incident_report"
  /\ incidents' =
       [incidents EXCEPT ![call.inc] =
          IF call.decision = "approve"
          THEN set_incident_status(@, "triaged", Null)
          ELSE set_incident_status(@, "open", "report rejected by reviewer")]
  /\ review_decisions' =
       [review_decisions EXCEPT
          ![call.inc] = create_review_decision(@, call.decision)]
  /\ last' = Reply(call.inc, NoBody, 1)
  /\ call' = NoCall
  /\ UNCHANGED <<alert_events, evidence_packs, triage_reports, pipeline_runs,
                 queue, workers, fixture_mode, published, observer,
                 ingest_vars, settings, llm, feedback, redaction, changes>>

\* Alert ingestion and the runs of one worker, around a decision request.
NextDecision ==
  \/ \E k \in Keys : post_alert(k)
  \/ \E k \in Keys, r \in 0..celery_task_max_retries : RunnerStart("w1", k, r)
  \/ RunnerGate("w1")
  \/ RunnerBuild("w1")
  \/ RunnerPersist("w1")
  \/ \E k \in Keys, d \in IncidentDecision : decide_check(Admin, k, d)
  \/ decide_commit

SpecDecision == Init /\ [][NextDecision]_vars

\* C34 as stated: the commit of a decision changes the status of the
\* incident only if the committed status is awaiting_human_review at that
\* moment.
C34_DecisionSeesCommittedStatus ==
  [][\A k \in Keys :
       (decide_commit /\ incidents'[k] # incidents[k])
         => incidents[k].status = "awaiting_human_review"]_vars


\* C35 as stated: a request that read no incident for its dedup_key
\* completes successfully whatever another request for that key committed
\* since (both found no incident before either committed): it answers 200
\* with the id of the one incident of the key and its AlertEvent is
\* persisted.
C35_ConcurrentFirstIngestsSucceed ==
  [][\A h \in Handlers :
       (http[h].pc = "selected" /\ http[h].found = 0 /\ http'[h].pc = "idle")
         => /\ http'[h].result = 200
            /\ \E r \in incident_rows' :
                 r.dedup_key = http[h].key /\ r.id = http'[h].found
            /\ \E a \in alert_rows' : a.id = http[h].alert]_vars


\* ------------------------------------------------------- overlapping runs
\* Alert ingestion and the runs of the workers with the retries of the task,
\* and nothing else: no shutdown, no redelivery, no request of a reviewer.
NextOverlap ==
  \/ \E k \in Keys : post_alert(k)
  \/ \E w \in Workers, k \in Keys, r \in 0..celery_task_max_retries :
       RunnerStart(w, k, r)
  \/ \E w \in Workers : RunnerGate(w)
  \/ \E w \in Workers : RunnerBuild(w)
  \/ \E w \in Workers : RunnerPersist(w)
  \/ \E w \in Workers : autoretry(w)

SpecOverlap == Init /\ [][NextOverlap]_vars

\* The artifacts a stored report refers to belong to the alert of the pack.
ReportIsOfPack(k, pack) ==
  \A row \in triage_reports[k] :
    \A field \in {"facts", "hypotheses", "next_checks", "mitigations"} :
      \A i \in 1..Len(row.payload[field]) :
        \A ref \in row.payload[field][i] :
          ref # UnknownArtifact => ref[2] = pack.alert_event_id

\* C36 as stated: with no run of the incident in progress or queued and the
\* status awaiting_human_review, the most recent EvidencePack is the one of
\* the latest alert and the stored report is the one of the run that wrote
\* that pack.
C36_SettledReportIsForLatestAlert ==
  \A k \in Keys :
    (incidents[k].exists /\ incidents[k].status = "awaiting_human_review"
       /\ ~Queued(k) /\ ~Running(k))
      => /\ LatestPackIsForLatestAlert(k)
         /\ triage_reports[k] # {}
         /\ ReportIsOfPack(k, evidence_packs[k][Len(evidence_packs[k])])


\* C37: a run that ends with the incident failed has committed no write of a
\* TriageReport or an EvidencePack; what it added is the failed PipelineRun
\* and, exactly when the gateway was reached, the llm.generate AuditLog row.
C37_FailedRunAddsOnlyRunAndAudit ==
  (call.fn = "triage_incident_sync" /\ call.pc = "closed"
     /\ call.status = "failed")
    => /\ "TriageReport" \notin call.rows
       /\ "EvidencePack" \notin call.rows
       /\ call.pending = {}
       /\ call.rows =
            {"PipelineRun:failed"}
              \cup (IF call.gateway THEN {"AuditLog:llm.generate"} ELSE {})

\* A failed run that had reached the gateway.
C37_Witness ==
  /\ call.fn = "triage_incident_sync"
  /\ call.pc = "closed"
  /\ call.status = "failed"
  /\ call.gateway
  /\ call.rows = {"PipelineRun:failed", "AuditLog:llm.generate"}


\* ------------------------------------------------------ the retention purge
\* POST /admin/purge over one incident and the rows that refer to it, each
\* with its created_at (updated_at for the incident) on a clock of MaxAge
\* ticks.

MaxAge == 2

PurgeTimes == 1..MaxAge

Cutoffs == 1..(MaxAge + 1)

\* The tables whose rows carry a foreign key to incidents.id.
ChildTables ==
  {"evidence_packs", "triage_reports", "review_decisions",
   "incident_feedback", "pipeline_runs"}

\* The rows of a table that refer to the incident, one per created_at.
RowsAt(times) == {[incident_id |-> 1, created_at |-> t] : t \in times}

\* The database before a purge.  The runner and the decision endpoint write
\* their rows in the transaction that sets updated_at of the incident, so
\* only feedback can be newer than the incident; triage_reports holds one
\* row per incident at most.
InitPurge ==
  /\ InitStore
  /\ settings = DefaultSettings
  /\ llm = NoClient
  /\ redaction = NoTexts
  /\ changes = {}
  /\ \E updated_at \in PurgeTimes :
       \E packs \in SUBSET (1..updated_at), reports \in SUBSET (1..updated_at),
          decisions \in SUBSET (1..updated_at), runs \in SUBSET (1..updated_at),
          notes \in SUBSET PurgeTimes :
         /\ Cardinality(reports) <= 1
         /\ call = [fn |-> "purge_old_data", code |-> 0,
                    alert_events |-> {1},
                    incidents |-> {[id |-> 1, updated_at |-> updated_at,
                                    latest_alert_event_id |-> 1]},
                    evidence_packs |-> RowsAt(packs),
                    triage_reports |-> RowsAt(reports),
                    review_decisions |-> RowsAt(decisions),
                    incident_feedback |-> RowsAt(notes),
                    pipeline_runs |-> RowsAt(runs)]

\* delete(Table).where(Table.created_at < before).
delete_where(rows, before) == {r \in rows : ~(r.created_at < before)}

\* Variant: the foreign keys to incidents.id are not enforced.
fk_violation_never(db, deleted) == FALSE

\* The foreign keys to incidents.id (no ON DELETE action): the delete of an
\* incident that a row still refers to is refused.
fk_violation(db, deleted) ==
  \E table \in ChildTables :
    \E r \in db[table] : \E i \in deleted : r.incident_id = i.id

\* IncidentRepository.purge_old_data: the deletes in the order of the code,
\* pipeline_runs and alert_events untouched.
repo_purge_old_data(db, before) ==
  [db EXCEPT
     !.evidence_packs = delete_where(@, before),
     !.triage_reports = delete_where(@, before),
     !.review_decisions = delete_where(@, before),
     !.incident_feedback = delete_where(@, before),
     !.incidents = {i \in @ : ~(i.updated_at < before)}]

\* POST /admin/purge: 403 for a principal that is not admin; otherwise the
\* deletes and the commit, or IntegrityError from the delete of incidents,
\* which rolls everything back and answers 500.
admin_purge(p, before) ==
  LET purged == repo_purge_old_data(call, before)
      deleted == call.incidents \ purged.incidents
  IN
  /\ call.fn = "purge_old_data"
  /\ call' = IF p.role # "admin" THEN [call EXCEPT !.code = 403]
             ELSE IF fk_violation(purged, deleted) THEN [call EXCEPT !.code = 500]
             ELSE [purged EXCEPT !.code = 200]
  /\ UNCHANGED rest_vars

\* POST /incidents/{id}/feedback at time at: one more IncidentFeedback row.
purge_feedback(at) ==
  /\ call.fn = "purge_old_data"
  /\ call.incidents # {}
  /\ call' = [call EXCEPT !.code = 201,
                          !.incident_feedback = @ \cup RowsAt({at})]
  /\ UNCHANGED rest_vars

NextPurge ==
  \/ \E p \in Principals, before \in Cutoffs : admin_purge(p, before)
  \/ \E at \in PurgeTimes : purge_feedback(at)

SpecPurge == InitPurge /\ [][NextPurge]_vars

\* Every row with a foreign key refers to a row that exists.
ReferentialIntegrity(db) ==
  /\ \A table \in ChildTables :
       \A r \in db[table] : \E i \in db.incidents : i.id = r.incident_id
  /\ \A i \in db.incidents : i.latest_alert_event_id \in db.alert_events

C39_CacheSurvivesFailedPost ==
  [][call_generate
       => LET selected == SelectedEndpoint(llm)
              later == _first_healthy(llm.tags, selected + 1)
          IN /\ llm'.cached # llm.cached
                  => llm'.cached \in ({_first_healthy(llm.tags, 1), later} \ {0})
             /\ \A e \in Posted(llm') \ {selected} : llm'.cached = e
             /\ (selected # 0 /\ llm.post[selected] = "error")
                  => /\ llm'.posts[selected] = 1
                     /\ llm'.cached = IF later = 0 THEN selected ELSE later
                     /\ (later = 0 \/ llm.post[later] = "error")
                          => llm'.result = "LLMConfigurationError"
             /\ llm.cached # 0 => llm'.posts[llm.cached] = 1]_vars


\* ------------------------------------------------------ the metrics routes
\* GET /metrics/quality and GET /metrics/runtime, asked by the same
\* principal of two databases a and b: each holds at most one incident per
\* service and at most one PipelineRun per incident.

MetricServices == {"billing", "payments"}

\* The incident of a service: none, or its status; and its run: none, or
\* the status of the PipelineRun (a failed one carries the error text).
MetricIncidents == {Null, "open", "failed"}

MetricRuns == {Null, "success", "failed"}

MetricDatabases ==
  {db \in [incidents : [MetricServices -> MetricIncidents],
           pipeline_runs : [MetricServices -> MetricRuns]] :
     \A s \in MetricServices :
       db.incidents[s] = Null => db.pipeline_runs[s] = Null}

InitMetrics ==
  /\ InitStore
  /\ settings = DefaultSettings
  /\ llm = NoClient
  /\ redaction = NoTexts
  /\ changes = {}
  /\ \E a \in MetricDatabases, b \in MetricDatabases :
       call = [fn |-> "metrics", a |-> a, b |-> b, route |-> Null,
               principal |-> Admin, reply_a |-> Null, reply_b |-> Null]

\* The body of GET /metrics/quality: list_incidents() without a filter,
\* counted by status.
quality_body(db) ==
  LET rows == {s \in MetricServices : db.incidents[s] # Null}
  IN [total_incidents |-> Cardinality(rows),
      status_counts |->
        [st \in MetricIncidents \ {Null} |->
           Cardinality({s \in rows : db.incidents[s] = st})]]

\* IncidentRepository.runtime_metrics: select(PipelineRunORM) without a
\* filter; recent_runs carries incident_id and error of every row.
repo_runtime_metrics(db) ==
  LET run_rows == {s \in MetricServices : db.pipeline_runs[s] # Null}
  IN [pipeline_runs |-> Cardinality(run_rows),
      pipeline_failures |->
        Cardinality({s \in run_rows : db.pipeline_runs[s] = "failed"}),
      recent_runs |->
        {[incident_id |-> s, status |-> db.pipeline_runs[s],
          error |-> IF db.pipeline_runs[s] = "failed" THEN <<"error", s>>
                    ELSE Null] : s \in run_rows}]

\* GET /metrics/quality: require_auth only.
get_quality_metrics(p) ==
  /\ call.fn = "metrics"
  /\ call' = [call EXCEPT !.route = "quality", !.principal = p,
                          !.reply_a = quality_body(call.a),
                          !.reply_b = quality_body(call.b)]
  /\ UNCHANGED rest_vars

\* GET /metrics/runtime: require_auth only, the principal is not used.
get_runtime_metrics(p) ==
  /\ call.fn = "metrics"
  /\ call' = [call EXCEPT !.route = "runtime", !.principal = p,
                          !.reply_a = repo_runtime_metrics(call.a),
                          !.reply_b = repo_runtime_metrics(call.b)]
  /\ UNCHANGED rest_vars

NextMetrics ==
  \/ \E p \in Principals : get_quality_metrics(p)
  \/ \E p \in Principals : get_runtime_metrics(p)

SpecMetrics == InitMetrics /\ [][NextMetrics]_vars

\* The services whose incidents the principal may read.
Readable(p) == {s \in MetricServices : authorize_service(p, s)}

\* The two databases hold the same rows for the services p may read.
SameReadable(p, a, b) ==
  \A s \in Readable(p) :
    a.incidents[s] = b.incidents[s] /\ a.pipeline_runs[s] = b.pipeline_runs[s]

\* C40 as stated: what a principal that is not admin gets from the metrics
\* routes is the same for two databases that differ only in incidents of
\* services it may not read, and recent_runs shows no incident_id or error
\* of such an incident.
C40_MetricsNoninterference ==
  (call.fn = "metrics" /\ call.route # Null /\ call.principal.role # "admin")
    => /\ SameReadable(call.principal, call.a, call.b)
            => call.reply_a = call.reply_b
       /\ call.route = "runtime"
            => \A row \in call.reply_a.recent_runs :
                 row.incident_id \in Readable(call.principal)

====
